---- MODULE Spec2Model ----
(***************************************************************************)
(* Verification model of the radiodan broadcast orchestration core:        *)
(* event store (bridge/event_store.py), playlist planner                   *)
(* (bridge/audio/playlist_planner.py), stream context                      *)
(* (bridge/audio/stream_context.py), voice scheduler                       *)
(* (bridge/audio/voice_scheduler.py) and mixer client                      *)
(* (bridge/audio/mixer.py).                                                *)
(*                                                                         *)
(* Each component has its own specification over the shared variables:     *)
(*   SpecStore    the event log across process restarts                    *)
(*   SpecPlanner  stream-context polling, planner queue and timeline       *)
(*   SpecMixer    concurrent callers of the mixer client                   *)
(*   SpecVoice    voice scheduler, its triggers and the mixer TTS queue    *)
(***************************************************************************)
EXTENDS Integers, Sequences, FiniteSets, TLC

VARIABLES
    \* ---- event store (event_store.py) ----
    db_open,              \* EventStore._db is not None
    event_log,            \* rows of table event_log, index = id
    last_music_z_stagger, \* EventStore._last_music_z_stagger
    now,                  \* time.time(), in whole ticks
    orphaned,             \* open(): <<cursor_active.rowcount, cursor_scheduled.rowcount>>
    written_since_open,   \* start_event/update_event wrote after the last open()
    \* ---- playlist planner (playlist_planner.py) ----
    strategy_set,         \* PlaylistPlanner._strategy is not None
    fill_pending,         \* a _deferred_fill task created by set_feeder has not run yet
    upcoming,             \* PlaylistPlanner._upcoming
    current_active_event_id, \* PlaylistPlanner._current_active_event_id (0 = None)
    skip_pending,         \* PlaylistPlanner._skip_pending
    lookahead,            \* PlaylistPlanner.lookahead
    library,              \* PlaylistPlanner._library: the track paths, ordered by path
    feeder,               \* the SelectionStrategy a plugin registers with set_feeder
    fallback,             \* the tracks of the engine's fallback playlist
    history,              \* PlaylistPlanner._history, most recent first
    playlist_queue,       \* rows of table playlist_queue
    planner_call,         \* history: the last planner operation and what it sent and emitted
    skip_requested,       \* history: POST /audio/skip ran since the last advance()
    planner_lock,         \* PlaylistPlanner._lock: the task holding it, "" = free
    op_pc,                \* per planner task: where it is in its operation
    attempt,              \* _deferred_fill: the attempt it is in (0 = not running)
    lock_log,             \* history: which operations made changes and which were crossed
    listeners,            \* StreamContext._listeners: per event, the callbacks in registration order
    emit_pc,              \* poll task inside _emit: the event and the index of the next callback
    handled,              \* history: the callbacks the current or last emission invoked
    engine_up,            \* the engine answers on its command socket
    fill_pc,              \* position of the planner's start and of its _deferred_fill task
    fill_waits,           \* history: the delays the deferred fill slept, in seconds
    push_log,             \* history: event ids of the entries whose music_q.push succeeded
    q_entries,            \* the event ids of the entries of music_q (parallel to music_q)
    gentle,               \* per gentle_duck segment: position, original_duck read, value before
    restore_timers,       \* the call_later restores not yet run, in the order they were set
    sse,                  \* per SSE connection: position, commits seen by its snapshot, frames sent
    requests,             \* the calls of TTSService.speak and LLMService.chat: service, event id, position
    \* ---- mixer engine, as seen through the control socket ----
    music_q,              \* the engine's music_q request queue
    now_playing,          \* filename reported by music.info ("" = none)
    \* ---- stream context (stream_context.py) ----
    last_filename,        \* StreamContext._last_filename
    current_track_event_id, \* StreamContext._current_track_event_id (0 = None)
    sc_pc,                \* position of the poll task: "idle" or "emit"
    plays,                \* history: number of track changes _poll_once has detected
    play_events,          \* history: <<play, event id>> for each event made active for a play
    \* ---- mixer client (mixer.py) ----
    mixer_lock,           \* LiquidsoapMixer._lock: the caller holding it, 0 = free
    caller_pc,            \* per caller: where it is in a mixer operation
    in_flight,            \* callers inside _send_command (socket open, exchange running)
    mixer_up,             \* the engine accepts connections
    \* ---- voice scheduler (voice_scheduler.py) and the poll task that drives it ----
    between_queue,        \* VoiceScheduler._between_queue
    before_end_triggers,  \* VoiceScheduler._before_end_triggers
    fired_before_end,     \* VoiceScheduler._fired_before_end (indices from 1)
    intr,                 \* the submit() task of an interrupt segment
    play_list,            \* _on_track_changed: sorted segments not yet played
    fire_list,            \* _on_track_ending: triggers_to_fire not yet played
    vs_pc,                \* poll task: "idle", "flushing" or "firing"
    tts_log,              \* TTS commands the engine has received, in order
    remaining_seconds,    \* StreamContext.remaining_seconds, in half seconds
    eng_remaining,        \* what the engine would answer to music.remaining
    track_ending_fired,   \* StreamContext._track_ending_fired
    ending_emitted,       \* history: the remaining times track_ending was emitted with
    status_paths,         \* history: per voice event, the statuses written to it, in order
                          \* since the last track change
    after_start_triggers, \* VoiceScheduler._after_start_triggers
    fired_after_start,    \* VoiceScheduler._fired_after_start (indices from 1)
    elapsed_seconds,      \* StreamContext.elapsed_seconds, in half seconds
    mon_list,             \* _check_after_start: triggers_to_fire not yet played
    \* ---- event store: subscribers and concurrent writers (event_store.py) ----
    sub_queue,            \* per subscriber: the asyncio.Queue subscribe() returned
    subscribed,           \* the subscribers whose queue is in EventStore._subscribers
    store_lock,           \* EventStore._lock: the writer holding it, 0 = free
    writer_pc,            \* per writer task: where it is in start/end/update_event
    commits,              \* history: number of writes committed
    pubs,                 \* history: number of _publish calls
    dropped,              \* history: per queue, messages _publish discarded since subscribe
    window,               \* what the last get_window call returned
    \* ---- mixer client: engine variables and mute state (mixer.py) ----
    engine_var,           \* the engine's interactive variables, in hundredths
    saved_audio,          \* config store section "audio" (NULL = key absent), in hundredths
    muted,                \* LiquidsoapMixer._music_muted / _tts_muted / _earcon_muted
    pre_mute,             \* LiquidsoapMixer._pre_mute_*_vol, in hundredths
    last_call,            \* history: the last public operation, what it wrote and returned
    calls                 \* history: number of public operations called

storeVars == <<db_open, event_log, last_music_z_stagger, now,
               orphaned, written_since_open>>

\* the planner-side variables except the filename last seen by the poll task
\* what the planner is constructed with and what a plugin brings; no action
\* of the model changes these
plannerConf == <<lookahead, library, feeder, fallback>>

\* the planner lock and the tasks that take it
lockVars == <<planner_lock, op_pc, attempt, lock_log>>

\* the stream context's listeners and the emission in progress
emitVars == <<listeners, emit_pc, handled>>

\* the deferred fill followed attempt by attempt, with the engine's side
fillVars == <<engine_up, fill_pc, fill_waits, push_log, q_entries>>

\* the gentle_duck segments in flight
duckVars == <<gentle, restore_timers>>

\* the variables of the parts followed on their own
auxVars == <<fillVars, duckVars, sse, requests>>

\* the history, the persisted queue and the record of the last operation
plannerLog == <<history, playlist_queue, planner_call, skip_requested>>

plannerRest == <<strategy_set, fill_pending, upcoming, current_active_event_id,
                 skip_pending, music_q, now_playing,
                 current_track_event_id, sc_pc, plays, play_events,
                 plannerConf, plannerLog, lockVars, emitVars, auxVars>>

plannerVars == <<plannerRest, last_filename>>

\* the planner and stream context proper
plannerBase == <<strategy_set, fill_pending, upcoming, current_active_event_id,
                 skip_pending, music_q, now_playing, current_track_event_id, sc_pc, plays,
                 play_events, plannerConf, plannerLog, lockVars, emitVars, last_filename>>

clientVars == <<mixer_lock, caller_pc, in_flight, mixer_up>>

\* the after_start side of the voice scheduler, with the monitor task
afterStartVars == <<after_start_triggers, fired_after_start, elapsed_seconds, mon_list>>

voiceVars == <<between_queue, before_end_triggers, fired_before_end, intr, play_list,
               fire_list, vs_pc, tts_log, remaining_seconds, eng_remaining,
               track_ending_fired, ending_emitted, status_paths, afterStartVars>>

pubsubVars == <<sub_queue, subscribed, store_lock, writer_pc, commits, pubs, dropped, window>>

\* the volume side of the mixer client
volumeVars == <<engine_var, saved_audio, muted, pre_mute, last_call, calls>>

vars == <<storeVars, plannerVars, clientVars, voiceVars, pubsubVars, volumeVars>>

\* the variables the volume operations of the mixer client leave alone
notVolume == <<storeVars, plannerVars, clientVars, voiceVars, pubsubVars>>

\* the variables the event-store actions leave alone
notStore == <<plannerVars, clientVars, voiceVars, pubsubVars, volumeVars>>

\* the variables the planner and stream-context actions leave alone
\* (besides those of the event store, which they write)
notPlanner == <<orphaned, written_since_open, plannerConf, lockVars, emitVars, auxVars,
                clientVars, voiceVars, pubsubVars, volumeVars>>

\* the variables the mixer-client actions leave alone
notClient == <<storeVars, plannerVars, voiceVars, pubsubVars, volumeVars>>

\* the variables the voice-scheduler actions leave alone (they write the
\* event log and, on a track change, last_filename)
notVoice == <<db_open, last_music_z_stagger, now, orphaned, written_since_open,
              plannerRest, clientVars, pubsubVars, volumeVars>>

\* ---------------------------------------------------------------------
\* Bounds
\* ---------------------------------------------------------------------
MaxEvents == 2      \* rows the event log may hold in SpecStore

\* SQL NULL / Python None for a timestamp column or argument
NULL == -1

\* the values time.time() takes: two instants suffice to tell a row's
\* started_at from its ended_at
Times == {1, 2}

\* ---------------------------------------------------------------------
\* Event store
\* ---------------------------------------------------------------------

\* status values written by the callers of start_event
StartStatuses == {"active", "scheduled"}

\* status values passed to end_event by its callers
EndStatuses == {"completed", "skipped", "cancelled", "failed"}

\* (event_type, lane, z_stagger detail) of the events written: the planner's music events
\* carry a z_stagger, the others none
LaneDetails == {<<"track_play", "music", 1>>, <<"voice_segment", "presenter", NULL>>}

\* a row of event_log joined with its z_stagger detail (NULL when absent)
Row(event_type, lane, status, started_at, ended_at, z, filename) ==
    [event_type |-> event_type, lane |-> lane, status |-> status,
     started_at |-> started_at, ended_at |-> ended_at, z_stagger |-> z,
     filename |-> filename, trigger |-> ""]

\* SQL COALESCE(a, b)
Coalesce(a, b) == IF a # NULL THEN a ELSE b

\* CloseOrphan without the second UPDATE (scheduled rows are left alone)
CloseOrphanBroken(r) ==
    IF r.status = "active"
    THEN [r EXCEPT !.status = "completed", !.ended_at = Coalesce(r.ended_at, r.started_at)]
    ELSE r

\* the two UPDATE statements of open() applied to one row
CloseOrphan(r) ==
    IF r.status = "active"
    THEN [r EXCEPT !.status = "completed", !.ended_at = Coalesce(r.ended_at, r.started_at)]
    ELSE IF r.status = "scheduled"
    THEN [r EXCEPT !.status = "cancelled", !.ended_at = Coalesce(r.ended_at, r.started_at)]
    ELSE r

\* ids of the music-lane rows that carry a z_stagger detail
MusicZIds(log) == {i \in 1..Len(log) : log[i].lane = "music" /\ log[i].z_stagger # NULL}

Max(S) == CHOOSE x \in S : \A y \in S : y <= x

\* SELECT d.value ... WHERE lane='music' AND key='z_stagger' ORDER BY id DESC LIMIT 1
RecoverZ(log, old) ==
    IF MusicZIds(log) = {} THEN old ELSE log[Max(MusicZIds(log))].z_stagger

\* EventStore.open on the database file left by the previous run
Open ==
    /\ ~db_open
    /\ db_open' = TRUE
    /\ orphaned' = <<Cardinality({i \in 1..Len(event_log) : event_log[i].status = "active"}),
                     Cardinality({i \in 1..Len(event_log) : event_log[i].status = "scheduled"})>>
    /\ event_log' = [i \in 1..Len(event_log) |-> CloseOrphan(event_log[i])]
    /\ last_music_z_stagger' = RecoverZ(event_log, last_music_z_stagger)
    /\ written_since_open' = FALSE
    /\ UNCHANGED <<now, notStore>>

\* EventStore.close, or the process dying: a new process starts with
\* _db = None and _last_music_z_stagger = 0 (__init__)
Close ==
    /\ db_open
    /\ db_open' = FALSE
    /\ last_music_z_stagger' = 0
    /\ orphaned' = <<0, 0>>
    /\ UNCHANGED <<event_log, now, written_since_open, notStore>>

\* the log after start_event: ts = started_at or now (0 and None are falsy)
StartEventLog(log, event_type, lane, status, started_at, z, filename, t) ==
    Append(log, Row(event_type, lane, status,
                    IF started_at = NULL \/ started_at = 0 THEN t ELSE started_at,
                    NULL, z, filename))

StartEventZ(old, lane, z) == IF lane = "music" /\ z # NULL THEN z ELSE old

\* EventStore.start_event
StartEvent ==
    \E lz \in LaneDetails, status \in StartStatuses, started_at \in Times \cup {NULL} :
      LET lane == lz[2]  z == lz[3] IN
        /\ Len(event_log) < MaxEvents
        /\ IF db_open
           THEN /\ event_log' = StartEventLog(event_log, lz[1], lane, status, started_at, z, "", now)
                /\ last_music_z_stagger' = StartEventZ(last_music_z_stagger, lane, z)
                /\ written_since_open' = TRUE
           ELSE UNCHANGED <<event_log, last_music_z_stagger, written_since_open>>
        /\ UNCHANGED <<db_open, now, orphaned, notStore>>

\* the log after end_event(event_id, status)
EndEventLog(log, id, status, t) ==
    IF id \in 1..Len(log)
    THEN [log EXCEPT ![id].ended_at = t, ![id].status = status]
    ELSE log

\* EventStore.end_event
EndEvent ==
    \E id \in 1..Len(event_log), status \in EndStatuses :
        /\ db_open
        /\ event_log' = EndEventLog(event_log, id, status, now)
        /\ UNCHANGED <<db_open, last_music_z_stagger, now, orphaned, written_since_open, notStore>>

\* the log after update_event(event_id, status=, started_at=, ended_at=);
\* NULL for a field means the keyword was not passed
UpdateEventLog(log, id, status, started_at, ended_at) ==
    IF id \in 1..Len(log)
    THEN [log EXCEPT ![id] =
            [@ EXCEPT !.status = IF status # "" THEN status ELSE @,
                      !.started_at = IF started_at # NULL THEN started_at ELSE @,
                      !.ended_at = IF ended_at # NULL THEN ended_at ELSE @]]
    ELSE log

\* EventStore.update_event
UpdateEvent ==
    \E id \in 1..Len(event_log), status \in {"", "active"},
       started_at \in Times \cup {NULL}, ended_at \in Times \cup {NULL} :
        /\ db_open
        /\ ~(status = "" /\ started_at = NULL /\ ended_at = NULL)
        /\ event_log' = UpdateEventLog(event_log, id, status, started_at, ended_at)
        /\ written_since_open' = TRUE
        /\ UNCHANGED <<db_open, last_music_z_stagger, now, orphaned, notStore>>

\* the wall clock advances
Tick ==
    /\ now + 1 \in Times
    /\ now' = now + 1
    /\ UNCHANGED <<db_open, event_log, last_music_z_stagger, orphaned, written_since_open, notStore>>

\* the engine variables the client reads and writes, in the order
\* _load_saved_volumes and get_volumes go through them
KeyOrder ==
    <<"music_vol", "tts_vol", "earcon_vol", "duck_amount", "crossfade_duration",
      "duck_in_duration", "duck_out_duration", "duck_in_curve", "duck_out_curve">>

VarKeys == {KeyOrder[i] : i \in DOMAIN KeyOrder}

\* the variables with a mute flag and a remembered pre-mute volume
Channels == {"music_vol", "tts_vol", "earcon_vol"}

\* get_volumes: result as initialised, in hundredths (1.0, 0.85, 0.5, 0.15,
\* 5.0, 0.8, 0.6, 0.7, 0.3)
Defaults ==
    [k \in VarKeys |->
        CASE k = "music_vol" -> 100
          [] k = "tts_vol" -> 85
          [] k = "earcon_vol" -> 50
          [] k = "duck_amount" -> 15
          [] k = "crossfade_duration" -> 500
          [] k = "duck_in_duration" -> 80
          [] k = "duck_out_duration" -> 60
          [] k = "duck_in_curve" -> 70
          [] k = "duck_out_curve" -> 30]

\* __init__: _pre_mute_music_vol = 1.0, _pre_mute_tts_vol = 0.85,
\* _pre_mute_earcon_vol = 0.5
PreMuteDefaults == [c \in Channels |-> Defaults[c]]

\* no public operation of the mixer client has been called
NoCall ==
    [op |-> "", key |-> "", arg |-> 0, ok |-> TRUE, wrote |-> <<>>,
     ret_ok |-> TRUE, ret_num |-> 0, ret_vols |-> <<>>, raised |-> FALSE]

\* the mixer client as constructed (__init__), an engine with its variables
\* at their defaults and a config store without an "audio" section
VolumeIdle ==
    /\ engine_var = Defaults
    /\ saved_audio = [k \in VarKeys |-> NULL]
    /\ muted = [c \in Channels |-> FALSE]
    /\ pre_mute = PreMuteDefaults
    /\ last_call = NoCall
    /\ calls = 0

\* the event store with no subscriber connected and no writer task running;
\* _publish then has no queue to write to
PubSubIdle ==
    /\ sub_queue = <<>>
    /\ subscribed = {}
    /\ store_lock = 0
    /\ writer_pc = <<>>
    /\ commits = 0
    /\ pubs = 0
    /\ dropped = <<>>
    /\ window = <<>>

\* no submit() task of an interrupt segment is running
NoInterrupt ==
    [at |-> "none", priority |-> 0, event_id |-> 0, found |-> <<>>,
     cancelled |-> <<>>, ended |-> 0]

\* the voice scheduler as constructed (__init__), the poll task not yet run
VoiceIdle ==
    /\ between_queue = <<>>
    /\ before_end_triggers = <<>>
    /\ fired_before_end = {}
    /\ intr = NoInterrupt
    /\ play_list = <<>>
    /\ fire_list = <<>>
    /\ vs_pc = "idle"
    /\ tts_log = <<>>
    /\ remaining_seconds = 0
    /\ eng_remaining = 0
    /\ track_ending_fired = FALSE
    /\ ending_emitted = <<>>
    /\ status_paths = <<>>
    /\ after_start_triggers = <<>>
    /\ fired_after_start = {}
    /\ elapsed_seconds = 0
    /\ mon_list = <<>>

\* the mixer client as constructed (__init__), no operation running
ClientIdle ==
    /\ mixer_lock = 0
    /\ caller_pc = [c \in {} |-> "idle"]
    /\ in_flight = {}
    /\ mixer_up = TRUE

Lookahead == 2          \* PlaylistPlanner.lookahead (5 in the default configuration)

\* the music library the planner loads (_load_library_from_db: ORDER BY
\* file_path); every track has its own basename
LibraryByPath == <<"a", "b">>

\* basenames of the tracks of the music library
Library == {LibraryByPath[i] : i \in 1..Len(LibraryByPath)}

\* planner_call before the first operation
NoPlannerCall ==
    [op |-> "none", has_position |-> FALSE, position |-> 0, before |-> <<>>,
     pushed |-> <<>>, emitted |-> <<>>, raised |-> FALSE, follows_insert |-> FALSE]

\* planner_call in the specifications that keep no record of the operations
Unrecorded ==
    [op |-> "unrecorded", has_position |-> FALSE, position |-> 0, before |-> <<>>,
     pushed |-> <<>>, emitted |-> <<>>, raised |-> FALSE, follows_insert |-> FALSE]

\* the listeners main() leaves registered before the plugins start:
\* voice_scheduler.start() registers its handlers, then main registers
\* planner.advance for track_changed
MainListeners ==
    [track_changed |-> <<"voice_scheduler", "advance">>,
     track_ending |-> <<"voice_scheduler">>]

\* emit_pc while the poll task is not inside _emit
NoEmission == [event |-> "", next |-> 0]

\* the tasks that run planner operations: the _deferred_fill task, the poll
\* task (its track_changed emission calls advance) and a web request
\* (insert_track, remove_track or move_track)
PlannerTasks == {"fill", "advance", "mutate"}

\* lock_log before any operation. open: the operations that have made a
\* change and not returned; crossed: those of open since whose last change
\* another operation read or changed the queue or sent a music-queue
\* command; interleaved: an operation made a change after it was crossed.
\* sec_*: the same for the lock-holding sections of the operations, the
\* queue-length query of the deferred fill not counted as a crossing.
NoCrossing ==
    [open |-> {}, crossed |-> {}, interleaved |-> FALSE,
     sec_open |-> {}, sec_crossed |-> {}, sec_interleaved |-> FALSE]

\* the planner and stream context as constructed (__init__) and started on
\* an empty persisted queue and history, with an idle engine
PlannerFields ==
    /\ strategy_set = FALSE
    /\ fill_pending = FALSE
    /\ upcoming = <<>>
    /\ current_active_event_id = 0
    /\ skip_pending = FALSE
    /\ history = <<>>
    /\ playlist_queue = {}
    /\ skip_requested = FALSE
    /\ music_q = <<>>
    /\ now_playing = ""
    /\ last_filename = ""
    /\ current_track_event_id = 0
    /\ sc_pc = "idle"
    /\ plays = 0
    /\ play_events = {}
    /\ planner_lock = ""
    /\ op_pc = [t \in PlannerTasks |-> "idle"]
    /\ attempt = 0
    /\ lock_log = NoCrossing
    /\ listeners = MainListeners
    /\ emit_pc = NoEmission
    /\ handled = <<>>

\* the gentle_duck segments followed
NumGentle == 3
GentleSegs == 1..NumGentle

\* a gentle_duck segment not yet played
NoGentle == [pc |-> "idle", original |-> NULL, before |-> NULL]

\* the engine answering, the planner not started
FillIdle ==
    /\ engine_up = TRUE
    /\ fill_pc = "none"
    /\ fill_waits = <<>>
    /\ push_log = <<>>
    /\ q_entries = <<>>

\* no gentle_duck segment submitted
DuckIdle ==
    /\ gentle = [s \in GentleSegs |-> NoGentle]
    /\ restore_timers = <<>>

\* the parts followed on their own, at rest
AuxIdle == FillIdle /\ DuckIdle /\ sse = <<>> /\ requests = <<>>

PlannerConstructed == PlannerFields /\ AuxIdle

\* the planner with the small library and lookahead, any strategy as feeder
\* and no record kept of its operations
PlannerIdle ==
    /\ PlannerConstructed
    /\ lookahead = Lookahead
    /\ library = LibraryByPath
    /\ feeder = "any"
    /\ fallback = Library
    /\ planner_call = Unrecorded

InitStore ==
    /\ PlannerIdle
    /\ ClientIdle
    /\ VoiceIdle
    /\ PubSubIdle
    /\ VolumeIdle
    /\ db_open = FALSE
    /\ event_log = <<>>
    /\ last_music_z_stagger = 0
    /\ now = 1
    /\ orphaned = <<0, 0>>
    /\ written_since_open = FALSE

NextStore ==
    \/ Open
    \/ Close
    \/ StartEvent
    \/ EndEvent
    \/ UpdateEvent
    \/ Tick

SpecStore == InitStore /\ [][NextStore]_vars

\* ---------------------------------------------------------------------
\* Claims about the event store
\* ---------------------------------------------------------------------

\* the store has just been opened and nothing has been written since
JustOpened == db_open /\ ~written_since_open

\* C1 (as claimed): open leaves every row that was active completed and every
\* row that was scheduled cancelled, each with ended_at = started_at, whatever
\* ended_at it held before.
C1_OrphansZeroWidth ==
    [][Open => \A i \in 1..Len(event_log) :
                 /\ event_log[i].status = "active" =>
                       /\ event_log'[i].status = "completed"
                       /\ event_log'[i].ended_at = event_log'[i].started_at
                 /\ event_log[i].status = "scheduled" =>
                       /\ event_log'[i].status = "cancelled"
                       /\ event_log'[i].ended_at = event_log'[i].started_at]_vars

\* C2: after open and until the next start_event/update_event write, no row
\* has status active or scheduled.
C2_NoOpenRowsAfterOpen ==
    JustOpened => \A i \in 1..Len(event_log) : event_log[i].status \notin {"active", "scheduled"}

\* C2 witness: an open() that closed both an active and a scheduled orphan
C2_Witness ==
    JustOpened /\ orphaned[1] > 0 /\ orphaned[2] > 0

\* ---------------------------------------------------------------------
\* Playlist planner, stream context and the engine's music queue
\* ---------------------------------------------------------------------

MaxQueue == 3           \* insert_track is offered while the queue is shorter than this
MaxTrackEvents == 4     \* rows the event log may hold in SpecPlanner
MaxScenarioEvents == 10 \* rows the event log may hold before the engine stops in SpecScenario
HistoryKeep == 2        \* entries _record_history keeps in memory (50 in the code)

\* the paths of the planner's library
LibraryPaths == {library[i] : i \in 1..Len(library)}

\* the rows the event log may hold before the engine stops: more with the
\* longer queue of the scenarios
TrackEventCap == IF lookahead = Lookahead THEN MaxTrackEvents ELSE MaxScenarioEvents

\* a queue entry: the keys of the track dict the planner reads and writes
Track(file_path, z, event_id) ==
    [file_path |-> file_path, z_stagger |-> z, event_id |-> event_id]

\* sequences over S of length at most n
SeqsUpTo(S, n) == UNION {[1..k -> S] : k \in 0..n}

RemoveAt(q, i) == SubSeq(q, 1, i - 1) \o SubSeq(q, i + 1, Len(q))

\* list.insert(position, x), position 0-based and within 0..len
InsertAt(q, position, x) ==
    SubSeq(q, 1, position) \o <<x>> \o SubSeq(q, position + 1, Len(q))

Min(S) == CHOOSE x \in S : \A y \in S : x <= y

\* PlaylistPlanner._is_same_track: equal basenames
IsSameTrack(track, filename) == track.file_path = filename

\* _predict_start_times: the projected (started_at, ended_at) of a queued
\* track. The chain of durations is not tracked here; every projection is
\* one tick wide and starts at the current instant.
PredictedStart == now
PredictedEnd == now + 1

\* PlaylistPlanner._create_scheduled_event: start_event(status="scheduled")
\* followed by update_event(ended_at=predicted end)
CreateScheduledEvent(log, track) ==
    UpdateEventLog(
        StartEventLog(log, "track_play", "music", "scheduled", PredictedStart,
                      track.z_stagger, track.file_path, now),
        Len(log) + 1, "", NULL, PredictedEnd)

\* PlaylistPlanner._update_scheduled_times
RECURSIVE UpdateScheduledTimes(_, _)
UpdateScheduledTimes(log, up) ==
    IF up = <<>> THEN log
    ELSE UpdateScheduledTimes(
            IF Head(up).event_id > 0
            THEN UpdateEventLog(log, Head(up).event_id, "", PredictedStart, PredictedEnd)
            ELSE log,
            Tail(up))

\* the while loop of _fill_queue_unlocked: append the tracks the strategy
\* returned, each with z_stagger = 1 - z_stagger of the entry before it
RECURSIVE FillUpcoming(_, _, _)
FillUpcoming(up, lastz, picks) ==
    IF picks = <<>> THEN up
    ELSE LET prev_z == IF up # <<>> THEN up[Len(up)].z_stagger ELSE lastz
         IN  FillUpcoming(Append(up, Track(Head(picks), 1 - prev_z, 0)), lastz, Tail(picks))

\* the second half of _fill_queue_unlocked: one scheduled event per added track
RECURSIVE FillEvents(_, _, _)
FillEvents(log, up, offset) ==
    IF offset >= Len(up) THEN [log |-> log, upcoming |-> up]
    ELSE FillEvents(CreateScheduledEvent(log, up[offset + 1]),
                    [up EXCEPT ![offset + 1].event_id = Len(log) + 1],
                    offset + 1)

\* _fill_queue_unlocked with the strategy returning picks and then None (or
\* the queue reaching lookahead): the new queue, log and last music z_stagger
FillQueue(up, log, lastz, picks) ==
    LET filled == FillUpcoming(up, lastz, picks)
        ev == FillEvents(log, filled, Len(up))
    IN  [upcoming |-> ev.upcoming,
         log |-> ev.log,
         z |-> IF picks = <<>> THEN lastz ELSE filled[Len(filled)].z_stagger,
         added |-> [i \in 1..Len(picks) |-> picks[i]]]

\* the library paths no entry of the queue holds, in library order; with
\* fresh, those of the history are left out as well
NotQueued(up, h, fresh) ==
    SelectSeq(library,
              LAMBDA p : /\ \A j \in 1..Len(up) : up[j].file_path # p
                         /\ fresh => \A j \in 1..Len(h) : h[j] # p)

\* what a strategy that returns the first not-yet-queued track by path
\* selects in n calls (None once every track is queued)
FirstByPath(up, h, n, fresh) ==
    SubSeq(NotQueued(up, h, fresh), 1, Min({n, Len(NotQueued(up, h, fresh))}))

\* the picks with the loop of _fill_queue_unlocked ending one entry early
PicksBroken(up, log, h) ==
    LET want == IF Len(up) < lookahead - 1 THEN lookahead - 1 - Len(up) ELSE 0
        room == IF Len(log) < TrackEventCap THEN TrackEventCap - Len(log) ELSE 0
    IN  IF feeder \in {"first_by_path", "first_fresh"}
        THEN {FirstByPath(up, h, want, feeder = "first_fresh")}
        ELSE SeqsUpTo(LibraryPaths, IF want < room THEN want ELSE room)

\* the picks a strategy can return while the queue is below lookahead; it
\* returns None at the latest when the event log has no room left
Picks(up, log, h) ==
    LET want == IF Len(up) < lookahead THEN lookahead - Len(up) ELSE 0
        room == IF Len(log) < TrackEventCap THEN TrackEventCap - Len(log) ELSE 0
    IN  IF feeder \in {"first_by_path", "first_fresh"}
        THEN {FirstByPath(up, h, want, feeder = "first_fresh")}
        ELSE SeqsUpTo(LibraryPaths, IF want < room THEN want ELSE room)

\* the file paths of a queue, in order
Paths(up) == [i \in 1..Len(up) |-> up[i].file_path]

\* _save_queue_to_db: DELETE every row, then INSERT (i, file_path, metadata)
\* for i, track in enumerate(upcoming)
SaveQueue(up) == {[position |-> i - 1, file_path |-> up[i].file_path] : i \in 1..Len(up)}

\* _load_queue_from_db: SELECT ... ORDER BY position
LoadQueue(rows) ==
    [i \in 1..Cardinality(rows) |->
        (CHOOSE r \in rows :
            Cardinality({q \in rows : q.position < r.position}) = i - 1).file_path]

\* _record_history: the entry goes to the front, the list keeps its first
\* HistoryKeep entries; nothing is recorded for an empty filename
RecordHistory(h, filename) ==
    IF filename = "" THEN h
    ELSE SubSeq(<<filename>> \o h, 1, Min({Len(h) + 1, HistoryKeep}))

\* the signals of advance() with tts_needed carrying the head of the queue
AdvanceSignalsBroken(up) ==
    <<<<"queue_changed", "">>>> \o
    (IF Len(up) > 1 THEN <<<<"tts_needed", up[1].file_path>>>> ELSE <<>>)

\* the signals advance() emits after the save: queue_changed, and
\* tts_needed(upcoming[1], 1) when the queue holds more than one track
AdvanceSignals(up) ==
    <<<<"queue_changed", "">>>> \o
    (IF Len(up) > 1 THEN <<<<"tts_needed", up[2].file_path>>>> ELSE <<>>)

\* the record of a planner operation that took no position
PlannerCall(op, before, pushed, emitted) ==
    IF planner_call = Unrecorded THEN Unrecorded
    ELSE [op |-> op, has_position |-> FALSE, position |-> 0, before |-> before,
          pushed |-> pushed, emitted |-> emitted, raised |-> FALSE,
          follows_insert |-> FALSE]

\* the record of insert_track, remove_track or move_track: none of them
\* pushes or emits (see InsertTrack)
MutationCall(op, has_position, position, before, raised) ==
    IF planner_call = Unrecorded THEN Unrecorded
    ELSE [op |-> op, has_position |-> has_position, position |-> position,
          before |-> before, pushed |-> <<>>, emitted |-> <<>>, raised |-> raised,
          follows_insert |-> FALSE]

\* the record of remove_track(position). When the call before it was
\* insert_track with the same position, the record says so and keeps the
\* queue from before that insert_track.
RemoveCall(up, position) ==
    LET undo == /\ planner_call.op = "insert_track"
                /\ planner_call.has_position
                /\ planner_call.position = position
        call == MutationCall("remove_track", TRUE, position,
                             IF undo THEN planner_call.before ELSE Paths(up),
                             position >= 0 /\ position < Len(up))
    IN  [call EXCEPT !.follows_insert = undo /\ planner_call # Unrecorded]

\* PlaylistPlanner.set_feeder: registers the strategy and creates the
\* _deferred_fill task
SetFeeder ==
    /\ ~strategy_set
    /\ strategy_set' = TRUE
    /\ fill_pending' = TRUE
    /\ UNCHANGED <<storeVars, upcoming, current_active_event_id, skip_pending, music_q,
                   now_playing, last_filename, current_track_event_id, sc_pc, plays,
                   play_events, plannerConf, plannerLog, lockVars, emitVars, auxVars, clientVars, voiceVars,
                   pubsubVars, volumeVars>>

\* PlaylistPlanner._deferred_fill, first attempt, with the engine reachable:
\* fill, then push every queued track (_push_all_to_liquidsoap)
DeferredFill ==
    /\ fill_pending
    /\ sc_pc = "idle"
    /\ \E picks \in Picks(upcoming, event_log, history) :
         LET f == FillQueue(upcoming, event_log, last_music_z_stagger, picks) IN
           /\ upcoming' = f.upcoming
           /\ event_log' = f.log
           /\ last_music_z_stagger' = f.z
           /\ music_q' = music_q \o Paths(f.upcoming)
           /\ playlist_queue' = IF f.added # <<>> THEN SaveQueue(f.upcoming)
                                 ELSE playlist_queue
           /\ planner_call' = PlannerCall("fill", Paths(upcoming), Paths(f.upcoming),
                                           IF f.added # <<>>
                                           THEN <<<<"queue_changed", "">>>> ELSE <<>>)
    /\ fill_pending' = FALSE
    /\ UNCHANGED <<db_open, now, strategy_set, current_active_event_id, skip_pending,
                   now_playing, last_filename, current_track_event_id, sc_pc, plays,
                   play_events, history, skip_requested, notPlanner>>

\* the engine starts the next request of music_q, or a track of its
\* fallback playlist
EngineNext ==
    IF music_q # <<>>
    THEN now_playing' = Head(music_q) /\ music_q' = Tail(music_q)
    ELSE now_playing' \in fallback /\ UNCHANGED music_q

\* the skip route of the web interface (POST /audio/skip): mixer.next_track()
\* sends music.skip; the call after it, stream_context.notify_skip(), raises
\* AttributeError (StreamContext defines no notify_skip; the method is
\* PlaylistPlanner's), so the planner's _skip_pending is left as it is
SkipRoute ==
    /\ sc_pc = "idle"
    /\ last_filename = now_playing
    /\ now_playing # ""
    /\ Len(event_log) < TrackEventCap
    /\ EngineNext
    /\ skip_requested' = TRUE
    /\ UNCHANGED <<storeVars, strategy_set, fill_pending, upcoming,
                   current_active_event_id, skip_pending, last_filename,
                   current_track_event_id, sc_pc, plays, play_events,
                   plannerConf, lockVars, emitVars, auxVars, history, playlist_queue, planner_call,
                   clientVars, voiceVars, pubsubVars, volumeVars>>

\* the engine ends the current track and starts the next one
MixerNext ==
    /\ sc_pc = "idle"
    /\ last_filename = now_playing
    /\ Len(event_log) < TrackEventCap
    /\ EngineNext
    /\ UNCHANGED <<storeVars, strategy_set, fill_pending, upcoming,
                   current_active_event_id, skip_pending, last_filename,
                   current_track_event_id, sc_pc, plays, play_events,
                   plannerConf, plannerLog, lockVars, emitVars, auxVars, clientVars, voiceVars,
                   pubsubVars, volumeVars>>

\* PlaylistPlanner.notify_skip
NotifySkip ==
    /\ ~skip_pending
    /\ skip_pending' = TRUE
    /\ UNCHANGED <<storeVars, strategy_set, fill_pending, upcoming,
                   current_active_event_id, music_q, now_playing, last_filename,
                   current_track_event_id, sc_pc, plays, play_events,
                   plannerConf, plannerLog, lockVars, emitVars, auxVars, clientVars, voiceVars,
                   pubsubVars, volumeVars>>

\* StreamContext._poll_once up to the emission of track_changed: the filename
\* differs from the last one seen; the previous track_play event of the
\* stream context is ended and a new active one is started
PollDetect ==
    /\ sc_pc = "idle"
    /\ now_playing # ""
    /\ now_playing # last_filename
    /\ last_filename' = now_playing
    /\ LET ended == IF current_track_event_id # 0
                    THEN EndEventLog(event_log, current_track_event_id, "completed", now)
                    ELSE event_log
       IN  /\ event_log' = StartEventLog(ended, "track_play", "music", "active", NULL,
                                         NULL, now_playing, now)
           /\ current_track_event_id' = Len(ended) + 1
           /\ plays' = plays + 1
           /\ play_events' = play_events \cup {<<plays + 1, Len(ended) + 1>>}
    /\ sc_pc' = "emit"
    /\ UNCHANGED <<db_open, last_music_z_stagger, now, strategy_set, fill_pending,
                   upcoming, current_active_event_id, skip_pending, music_q, now_playing,
                   plannerLog, notPlanner>>

\* index of the queue entry advance() pops for filename (0 = none): the head
\* if it matches, else the first match
PopIndex(up, filename) ==
    LET matches == {i \in 1..Len(up) : IsSameTrack(up[i], filename)}
    IN  IF matches = {} THEN 0 ELSE Min(matches)

\* PlaylistPlanner.advance, run by the emission of track_changed
Advance ==
    /\ sc_pc = "emit"
    /\ LET ended == IF current_active_event_id # 0
                    THEN EndEventLog(event_log, current_active_event_id,
                                     IF skip_pending THEN "skipped" ELSE "completed", now)
                    ELSE event_log
           k == PopIndex(upcoming, last_filename)
           popped_id == IF k = 0 THEN 0 ELSE upcoming[k].event_id
           shifted == IF k = 0 THEN upcoming ELSE RemoveAt(upcoming, k)
           activated == IF popped_id > 0
                        THEN UpdateEventLog(ended, popped_id, "active", now, NULL)
                        ELSE ended
       IN  /\ current_active_event_id' = IF popped_id > 0 THEN popped_id ELSE 0
           /\ play_events' = IF popped_id > 0
                             THEN play_events \cup {<<plays, popped_id>>}
                             ELSE play_events
           /\ \E picks \in (IF strategy_set THEN Picks(shifted, activated, RecordHistory(history, last_filename))
                                ELSE {<<>>}) :
                LET f == FillQueue(shifted, activated, last_music_z_stagger, picks) IN
                  /\ upcoming' = f.upcoming
                  /\ event_log' = UpdateScheduledTimes(f.log, f.upcoming)
                  /\ last_music_z_stagger' = f.z
                  /\ music_q' = music_q \o f.added
                  /\ playlist_queue' = SaveQueue(f.upcoming)
                  /\ planner_call' = PlannerCall("advance", Paths(upcoming), f.added,
                                                  AdvanceSignals(f.upcoming))
    /\ history' = RecordHistory(history, last_filename)
    /\ skip_pending' = FALSE
    /\ skip_requested' = FALSE
    /\ sc_pc' = "idle"
    /\ UNCHANGED <<db_open, now, strategy_set, fill_pending, now_playing, last_filename,
                   current_track_event_id, plays, notPlanner>>

\* insert_track's list operation without the insert branch: the track always
\* goes to the end
InsertUpcomingBroken(up, track, has_position, position) ==
    Append(up, track)

\* the queue after insert_track's list operation; has_position = FALSE is
\* position=None
InsertUpcoming(up, track, has_position, position) ==
    IF ~has_position \/ position >= Len(up)
    THEN Append(up, track)
    ELSE InsertAt(up, IF position < 0 THEN 0 ELSE position, track)

\* the 0-based index insert_track placed the track at
InsertPosition(up, has_position, position) ==
    IF ~has_position \/ position >= Len(up) THEN Len(up)
    ELSE IF position < 0 THEN 0 ELSE position

\* the z_stagger insert_track assigns: 1 - z_stagger of the entry before the
\* insertion point, or of the last music event at the head of the queue
InsertZ(up, position, lastz) ==
    1 - (IF position > 0 THEN up[position].z_stagger ELSE lastz)

\* PlaylistPlanner.insert_track for a file of the library. The call of
\* mixer.flush_music_queue in _sync_liquidsoap_queue raises AttributeError
\* (LiquidsoapMixer defines no such method), which ends the handler before
\* the re-push, the save and the queue_changed emission.
InsertTrack ==
    \E file_path \in LibraryPaths, has_position \in BOOLEAN, position \in -1..MaxQueue :
        /\ Len(upcoming) < MaxQueue
        /\ Len(event_log) < TrackEventCap
        /\ has_position \/ position = 0
        /\ LET pos == InsertPosition(upcoming, has_position, position)
               track == Track(file_path, InsertZ(upcoming, pos, last_music_z_stagger),
                              Len(event_log) + 1)
               inserted == InsertUpcoming(upcoming, track, has_position, position)
           IN  /\ upcoming' = inserted
               /\ event_log' = UpdateScheduledTimes(CreateScheduledEvent(event_log, track),
                                                    inserted)
               /\ last_music_z_stagger' = track.z_stagger
        /\ planner_call' = MutationCall("insert_track", has_position, position,
                                         Paths(upcoming), TRUE)
        /\ UNCHANGED <<db_open, now, strategy_set, fill_pending, current_active_event_id,
                       skip_pending, music_q, now_playing, last_filename,
                       current_track_event_id, sc_pc, plays, play_events,
                       history, playlist_queue, skip_requested, notPlanner>>

\* remove_track's position test
ValidPosition(up, position) == position >= 0 /\ position < Len(up)

\* PlaylistPlanner.remove_track: None and no change for an invalid position,
\* else the handler up to the AttributeError of _sync_liquidsoap_queue
RemoveTrack ==
    \E position \in -1..MaxQueue :
        /\ IF ValidPosition(upcoming, position)
           THEN /\ upcoming' = RemoveAt(upcoming, position + 1)
                /\ event_log' = IF upcoming[position + 1].event_id > 0
                                THEN EndEventLog(event_log, upcoming[position + 1].event_id,
                                                 "skipped", now)
                                ELSE event_log
           ELSE UNCHANGED <<upcoming, event_log>>
        /\ planner_call' = RemoveCall(upcoming, position)
        /\ UNCHANGED <<db_open, last_music_z_stagger, now, strategy_set, fill_pending,
                       current_active_event_id, skip_pending, music_q, now_playing,
                       last_filename, current_track_event_id, sc_pc, plays, play_events,
                       history, playlist_queue, skip_requested, notPlanner>>

\* PlaylistPlanner.move_track with valid, different positions, up to the
\* AttributeError of _sync_liquidsoap_queue
MoveTrack ==
    \E from_pos \in 0..(Len(upcoming) - 1), to_pos \in 0..(Len(upcoming) - 1) :
        /\ from_pos # to_pos
        /\ upcoming' = InsertAt(RemoveAt(upcoming, from_pos + 1), to_pos, upcoming[from_pos + 1])
        /\ planner_call' = MutationCall("move_track", TRUE, from_pos, Paths(upcoming), TRUE)
        /\ UNCHANGED <<storeVars, strategy_set, fill_pending, current_active_event_id,
                       skip_pending, music_q, now_playing, last_filename,
                       current_track_event_id, sc_pc, plays, play_events,
                       plannerConf, lockVars, emitVars, auxVars, history, playlist_queue, skip_requested,
                       clientVars, voiceVars,
                       pubsubVars, volumeVars>>

\* main(): the store is open and empty, the planner started on an empty
\* persisted queue, no feeder registered yet
InitPlanner ==
    /\ PlannerIdle
    /\ ClientIdle
    /\ VoiceIdle
    /\ PubSubIdle
    /\ VolumeIdle
    /\ db_open = TRUE
    /\ event_log = <<>>
    /\ last_music_z_stagger = 0
    /\ now = 1
    /\ orphaned = <<0, 0>>
    /\ written_since_open = FALSE

NextPlanner ==
    \/ SetFeeder
    \/ DeferredFill
    \/ MixerNext
    \/ NotifySkip
    \/ PollDetect
    \/ Advance
    \/ InsertTrack
    \/ RemoveTrack
    \/ MoveTrack

SpecPlanner == InitPlanner /\ [][NextPlanner]_vars

\* the event store open and empty
StoreEmpty ==
    /\ db_open = TRUE
    /\ event_log = <<>>
    /\ last_music_z_stagger = 0
    /\ now = 1
    /\ orphaned = <<0, 0>>
    /\ written_since_open = FALSE

\* as InitPlanner, with the feeder plugin bringing the first-by-path strategy
\* and a record kept of every planner operation
InitQueue ==
    /\ PlannerConstructed
    /\ lookahead = Lookahead
    /\ library = LibraryByPath
    /\ feeder = "first_by_path"
    /\ fallback = Library
    /\ planner_call = NoPlannerCall
    /\ ClientIdle
    /\ VoiceIdle
    /\ PubSubIdle
    /\ VolumeIdle
    /\ StoreEmpty

\* the operations on the queue alone, the engine playing nothing
NextQueue ==
    \/ SetFeeder
    \/ DeferredFill
    \/ InsertTrack
    \/ RemoveTrack
    \/ MoveTrack

SpecQueue == InitQueue /\ [][NextQueue]_vars

ScenarioLookahead == 5  \* lookahead of the default configuration

\* the ten-track library of the scenarios, ordered by path
ScenarioLibrary == <<"A", "B", "C", "D", "E", "F", "G", "H", "I", "J">>

\* main() on a fresh installation: store and persisted queue empty, no
\* feeder yet. The feeder plugin brings a strategy that selects the first
\* track by path that is not queued, or one that also leaves out the
\* tracks of the history; the engine's fallback playlist is the first two
\* tracks.
InitScenario ==
    /\ PlannerConstructed
    /\ lookahead = ScenarioLookahead
    /\ library = ScenarioLibrary
    /\ feeder \in {"first_by_path", "first_fresh"}
    /\ fallback = {ScenarioLibrary[1], ScenarioLibrary[2]}
    /\ planner_call = NoPlannerCall
    /\ ClientIdle
    /\ VoiceIdle
    /\ PubSubIdle
    /\ VolumeIdle
    /\ StoreEmpty

\* feeder registration, playback and track changes, without user mutations
NextScenario ==
    \/ SetFeeder
    \/ DeferredFill
    \/ MixerNext
    \/ SkipRoute
    \/ NotifySkip
    \/ PollDetect
    \/ Advance

SpecScenario == InitScenario /\ [][NextScenario]_vars

\* ---------------------------------------------------------------------
\* Claims about the planner queue and the music timeline
\* ---------------------------------------------------------------------

\* C3 (as claimed): every two adjacent entries of the upcoming queue that
\* carry event ids have opposite z_stagger bits.
C3_AdjacentStagger ==
    \A i \in 1..(Len(upcoming) - 1) :
        (upcoming[i].event_id > 0 /\ upcoming[i + 1].event_id > 0)
            => upcoming[i + 1].z_stagger = 1 - upcoming[i].z_stagger

\* the music-lane track_play events made active for play p
EventsOfPlay(p) == {e \in 1..Len(event_log) : <<p, e>> \in play_events}

\* C4 (as claimed): every detected play has exactly one music-lane track_play
\* event, and once the next track has started that event is completed or
\* skipped.
C4_OneEventPerPlay ==
    sc_pc = "idle" =>
        \A p \in 1..plays :
            /\ Cardinality(EventsOfPlay(p)) = 1
            /\ p < plays =>
                 \A e \in EventsOfPlay(p) : event_log[e].status \in {"completed", "skipped"}

\* the track_play events that are active
ActiveTrackPlays ==
    {e \in 1..Len(event_log) :
        event_log[e].event_type = "track_play" /\ event_log[e].status = "active"}

\* C5 (as claimed): at every moment at most one track_play event is active,
\* and it belongs to the track currently playing; so the previous one has
\* left `active` before a new one enters it.
C5_OneActiveTrackPlay ==
    /\ Cardinality(ActiveTrackPlays) <= 1
    /\ \A e \in ActiveTrackPlays : event_log[e].filename = last_filename

\* ---------------------------------------------------------------------
\* Mixer client: concurrent callers of one LiquidsoapMixer
\* ---------------------------------------------------------------------

NumCallers == 2         \* tasks that call the mixer concurrently
MaxSaved == 2           \* audio settings found in the config store by start()

Callers == 1..NumCallers

\* operations that wrap their exchange in `async with self._lock`
LockedOps == {"queue_tts", "queue_music", "flush_tts", "get_remaining"}

\* a caller's position: op is the public operation, at is
\*   "waiting"  suspended in `async with self._lock`
\*   "exchange" inside _send_command
\*   "load"     start(): awaiting config_store.get_section
\* and left counts the var.set commands _load_saved_volumes has yet to send
Pc(op, at, left) == [op |-> op, at |-> at, left |-> left]

IdlePc == Pc("", "idle", 0)

\* a locked operation is called: the lock is taken and _send_command entered
\* without suspending when the lock is free, else the caller queues on it
CallLocked(c) ==
    \E op \in LockedOps :
        /\ caller_pc[c] = IdlePc
        /\ IF mixer_lock = 0
           THEN /\ mixer_lock' = c
                /\ in_flight' = in_flight \cup {c}
                /\ caller_pc' = [caller_pc EXCEPT ![c] = Pc(op, "exchange", 0)]
           ELSE /\ caller_pc' = [caller_pc EXCEPT ![c] = Pc(op, "waiting", 0)]
                /\ UNCHANGED <<mixer_lock, in_flight>>
        /\ UNCHANGED <<mixer_up, notClient>>

\* a queued caller is given the released lock and enters _send_command
Acquire(c) ==
    /\ caller_pc[c].at = "waiting"
    /\ mixer_lock = 0
    /\ mixer_lock' = c
    /\ in_flight' = in_flight \cup {c}
    /\ caller_pc' = [caller_pc EXCEPT ![c].at = "exchange"]
    /\ UNCHANGED <<mixer_up, notClient>>

\* _send_command returns or raises RuntimeError inside a locked operation:
\* the socket is closed (finally) and the lock released
FinishLocked(c) ==
    /\ caller_pc[c].op \in LockedOps
    /\ caller_pc[c].at = "exchange"
    /\ in_flight' = in_flight \ {c}
    /\ mixer_lock' = 0
    /\ caller_pc' = [caller_pc EXCEPT ![c] = IdlePc]
    /\ UNCHANGED <<mixer_up, notClient>>

\* LiquidsoapMixer.health_check: _send_command("version") without the lock
HealthCheck(c) ==
    /\ caller_pc[c] = IdlePc
    /\ in_flight' = in_flight \cup {c}
    /\ caller_pc' = [caller_pc EXCEPT ![c] = Pc("health_check", "exchange", 0)]
    /\ UNCHANGED <<mixer_lock, mixer_up, notClient>>

\* health_check's exchange ends (True, or False on any exception)
FinishHealthCheck(c) ==
    /\ caller_pc[c] = Pc("health_check", "exchange", 0)
    /\ in_flight' = in_flight \ {c}
    /\ caller_pc' = [caller_pc EXCEPT ![c] = IdlePc]
    /\ UNCHANGED <<mixer_lock, mixer_up, notClient>>

\* LiquidsoapMixer.start: _test_connection sends "version" without the lock
MixerStart(c) ==
    /\ caller_pc[c] = IdlePc
    /\ in_flight' = in_flight \cup {c}
    /\ caller_pc' = [caller_pc EXCEPT ![c] = Pc("start", "exchange", 0)]
    /\ UNCHANGED <<mixer_lock, mixer_up, notClient>>

\* _test_connection returns: on success start() goes on to
\* _load_saved_volumes and awaits the config store, else it is done
FinishTestConnection(c) ==
    /\ caller_pc[c] = Pc("start", "exchange", 0)
    /\ in_flight' = in_flight \ {c}
    /\ caller_pc' = [caller_pc EXCEPT ![c] = IF mixer_up THEN Pc("start", "load", 0) ELSE IdlePc]
    /\ UNCHANGED <<mixer_lock, mixer_up, notClient>>

\* _load_saved_volumes: the saved section arrives; with no saved key the
\* operation is done, else the first var.set exchange starts, without the lock
LoadSavedVolumes(c) ==
    \E saved \in 0..MaxSaved :
        /\ caller_pc[c] = Pc("start", "load", 0)
        /\ IF saved = 0
           THEN /\ caller_pc' = [caller_pc EXCEPT ![c] = IdlePc]
                /\ UNCHANGED in_flight
           ELSE /\ caller_pc' = [caller_pc EXCEPT ![c] = Pc("restore", "exchange", saved)]
                /\ in_flight' = in_flight \cup {c}
        /\ UNCHANGED <<mixer_lock, mixer_up, notClient>>

\* a var.set exchange of _load_saved_volumes ends: the next one starts at
\* once; after the last one, or on RuntimeError, start() is done
FinishRestore(c) ==
    /\ caller_pc[c].op = "restore"
    /\ IF mixer_up /\ caller_pc[c].left > 1
       THEN /\ caller_pc' = [caller_pc EXCEPT ![c].left = @ - 1]
            /\ UNCHANGED in_flight
       ELSE /\ caller_pc' = [caller_pc EXCEPT ![c] = IdlePc]
            /\ in_flight' = in_flight \ {c}
    /\ UNCHANGED <<mixer_lock, mixer_up, notClient>>

\* the engine goes down or comes back
MixerFlip ==
    /\ mixer_up' = ~mixer_up
    /\ UNCHANGED <<mixer_lock, caller_pc, in_flight, notClient>>

InitClient ==
    /\ mixer_lock = 0
    /\ caller_pc = [c \in Callers |-> IdlePc]
    /\ in_flight = {}
    /\ mixer_up = TRUE
    /\ PlannerIdle
    /\ VoiceIdle
    /\ PubSubIdle
    /\ VolumeIdle
    /\ db_open = FALSE
    /\ event_log = <<>>
    /\ last_music_z_stagger = 0
    /\ now = 1
    /\ orphaned = <<0, 0>>
    /\ written_since_open = FALSE

NextClient ==
    \/ \E c \in Callers : CallLocked(c)
    \/ \E c \in Callers : Acquire(c)
    \/ \E c \in Callers : FinishLocked(c)
    \/ \E c \in Callers : HealthCheck(c)
    \/ \E c \in Callers : FinishHealthCheck(c)
    \/ \E c \in Callers : MixerStart(c)
    \/ \E c \in Callers : FinishTestConnection(c)
    \/ \E c \in Callers : LoadSavedVolumes(c)
    \/ \E c \in Callers : FinishRestore(c)
    \/ MixerFlip

SpecMixer == InitClient /\ [][NextClient]_vars

\* C6 (as claimed): at most one mixer command exchange is in flight at any
\* time, for every mixer operation, the connectivity probe and the settings
\* restore of start and health_check included.
C6_OneCommandInFlight == Cardinality(in_flight) <= 1

(***************************************************************************)
(* Voice scheduler (voice_scheduler.py), driven by the poll task of the    *)
(* stream context.  Durations are in half seconds.  A segment is the pair  *)
(* of its priority and the id of its timeline event; the engine is up and  *)
(* the event store is open, as after main().  The track_play rows that     *)
(* _poll_once writes are followed in SpecPlanner.                          *)
(***************************************************************************)

MaxVoiceEvents == 4

\* StreamContext.track_ending_threshold: 30.0 s
TrackEndingThreshold == 60

BetweenPriorities == {-5, 10, 20, 30}
InterruptPriorities == {-5}
AsapPriorities == {0, 5}

Segment(priority, event_id) == [priority |-> priority, event_id |-> event_id]

FlushCmd(event_id) == [cmd |-> "tts.flush_and_skip", by |-> event_id]
PushCmd(event_id) == [cmd |-> "tts.push", by |-> event_id]

\* start_event for a voice segment: the row and the id it returns
\* (details.trigger is kept; "before_end:X" is recorded as "before_end")
VoiceEventLog(log, status, trigger) ==
    LET started == StartEventLog(log, "voice_segment", "presenter", status,
                                 NULL, NULL, "", now) IN
      [started EXCEPT ![Len(started)].trigger = trigger]

\* VoiceScheduler._play, the timeline side: active, then completed, or
\* failed when speech synthesis raises
PlayEvents(log, seg, ok) ==
    EndEventLog(UpdateEventLog(log, seg.event_id, "active", NULL, NULL),
                seg.event_id, IF ok THEN "completed" ELSE "failed", now)

\* the statuses written to the events of the voice segments: start_event
\* with its status, then every update_event and end_event, per event id
StartPath(paths, status) == Append(paths, <<status>>)
NotePath(paths, id, status) == [paths EXCEPT ![id] = Append(@, status)]

\* VoiceScheduler._play, the statuses it writes: update_event "active", then
\* end_event (completed) or, from the except branch, end_event "failed"
PlayPath(paths, seg, ok) ==
    NotePath(NotePath(paths, seg.event_id, "active"),
             seg.event_id, IF ok THEN "completed" ELSE "failed")

\* a _play that queues a clip although synthesis raised
PlayTtsBroken(log, seg, ok) == Append(log, PushCmd(seg.event_id))

\* VoiceScheduler._play, the engine side: _queue_with_mix_mode pushes the
\* clip to the TTS queue unless synthesis raised
PlayTts(log, seg, ok) == IF ok THEN Append(log, PushCmd(seg.event_id)) ELSE log

\* submit(), trigger "asap" with priority >= 0
SubmitAsap ==
    \E p \in AsapPriorities, ok \in BOOLEAN :
      LET log == VoiceEventLog(event_log, "active", "asap")
          seg == Segment(p, Len(log)) IN
        /\ db_open
        /\ Len(event_log) < MaxVoiceEvents
        /\ event_log' = PlayEvents(log, seg, ok)
        /\ status_paths' = PlayPath(StartPath(status_paths, "active"), seg, ok)
        /\ tts_log' = PlayTts(tts_log, seg, ok)
        /\ written_since_open' = TRUE
        /\ UNCHANGED <<between_queue, before_end_triggers, fired_before_end, intr,
                       play_list, fire_list, vs_pc, remaining_seconds, eng_remaining,
                       track_ending_fired, ending_emitted, afterStartVars, last_filename,
                       db_open, last_music_z_stagger, now, orphaned, plannerRest, clientVars,
                       pubsubVars, volumeVars>>

\* submit(), trigger "between_songs"
SubmitBetween ==
    \E p \in BetweenPriorities :
      LET log == VoiceEventLog(event_log, "scheduled", "between_songs") IN
        /\ db_open
        /\ Len(event_log) < MaxVoiceEvents
        /\ event_log' = log
        /\ status_paths' = StartPath(status_paths, log[Len(log)].status)
        /\ between_queue' = Append(between_queue, Segment(p, Len(log)))
        /\ written_since_open' = TRUE
        /\ UNCHANGED <<before_end_triggers, fired_before_end, intr, tts_log,
                       play_list, fire_list, vs_pc, remaining_seconds, eng_remaining,
                       track_ending_fired, ending_emitted, afterStartVars, last_filename,
                       db_open, last_music_z_stagger, now, orphaned, plannerRest, clientVars,
                       pubsubVars, volumeVars>>

\* submit(), trigger "asap" with priority < 0, up to the call of _interrupt_for
SubmitInterrupt ==
    \E p \in InterruptPriorities :
      LET log == VoiceEventLog(event_log, "active", "interrupt") IN
        /\ db_open
        /\ intr = NoInterrupt
        /\ Len(event_log) < MaxVoiceEvents
        /\ event_log' = log
        /\ status_paths' = StartPath(status_paths, log[Len(log)].status)
        /\ intr' = [at |-> "flush", priority |-> p, event_id |-> Len(log),
                    found |-> <<>>, cancelled |-> <<>>, ended |-> 0]
        /\ written_since_open' = TRUE
        /\ UNCHANGED <<between_queue, before_end_triggers, fired_before_end, tts_log,
                       play_list, fire_list, vs_pc, remaining_seconds, eng_remaining,
                       track_ending_fired, ending_emitted, afterStartVars, last_filename,
                       db_open, last_music_z_stagger, now, orphaned, plannerRest, clientVars,
                       pubsubVars, volumeVars>>

\* _interrupt_for: await self.mixer.flush_tts()
InterruptFlush ==
    /\ intr.at = "flush"
    /\ tts_log' = Append(tts_log, FlushCmd(intr.event_id))
    /\ intr' = [intr EXCEPT !.at = "cancel"]
    /\ UNCHANGED <<between_queue, before_end_triggers, fired_before_end, event_log, status_paths,
                   play_list, fire_list, vs_pc, remaining_seconds, eng_remaining,
                   track_ending_fired, ending_emitted, afterStartVars, last_filename, notVoice>>

\* a cut that also drops the segments as urgent as the interrupt
KeptBroken(queue, p) == SelectSeq(queue, LAMBDA s : s.priority < p)

\* _interrupt_for: kept = [s for s in self._between_queue if s.priority <= segment.priority]
Kept(queue, p) == SelectSeq(queue, LAMBDA s : s.priority <= p)

\* a cancellation that spares the most urgent of the queued segments
CancelledBroken(queue, p) ==
    SelectSeq(queue, LAMBDA s : s.priority > p
                                /\ \E i \in 1..Len(queue) : queue[i].priority < s.priority)

\* _interrupt_for: cancelled = [s for s in self._between_queue if s.priority > segment.priority]
Cancelled(queue, p) == SelectSeq(queue, LAMBDA s : s.priority > p)

\* a section under the lock that leaves the cancelled segments queued
InterruptCancelBroken ==
    /\ intr.at = "cancel"
    /\ between_queue' = between_queue
    /\ intr' = [intr EXCEPT !.at = "end_events",
                            !.found = between_queue,
                            !.cancelled = Cancelled(between_queue, intr.priority)]
    /\ UNCHANGED <<before_end_triggers, fired_before_end, event_log, status_paths, tts_log,
                   play_list, fire_list, vs_pc, remaining_seconds, eng_remaining,
                   track_ending_fired, ending_emitted, afterStartVars, last_filename, notVoice>>

\* _interrupt_for: the section under self._lock
InterruptCancel ==
    /\ intr.at = "cancel"
    /\ between_queue' = Kept(between_queue, intr.priority)
    /\ intr' = [intr EXCEPT !.at = "end_events",
                            !.found = between_queue,
                            !.cancelled = Cancelled(between_queue, intr.priority)]
    /\ UNCHANGED <<before_end_triggers, fired_before_end, event_log, status_paths, tts_log,
                   play_list, fire_list, vs_pc, remaining_seconds, eng_remaining,
                   track_ending_fired, ending_emitted, afterStartVars, last_filename, notVoice>>

\* _interrupt_for: one turn of "for s in cancelled: await end_event(..., 'cancelled')"
InterruptEndEvent ==
    /\ intr.at = "end_events"
    /\ intr.ended < Len(intr.cancelled)
    /\ event_log' = EndEventLog(event_log, intr.cancelled[intr.ended + 1].event_id,
                                "cancelled", now)
    /\ status_paths' = NotePath(status_paths, intr.cancelled[intr.ended + 1].event_id,
                                "cancelled")
    /\ intr' = [intr EXCEPT !.ended = @ + 1]
    /\ UNCHANGED <<between_queue, before_end_triggers, fired_before_end, tts_log,
                   play_list, fire_list, vs_pc, remaining_seconds, eng_remaining,
                   track_ending_fired, ending_emitted, afterStartVars, last_filename, notVoice>>

\* _interrupt_for: await self._play(segment), after the loop
InterruptPlay ==
    \E ok \in BOOLEAN :
      LET seg == Segment(intr.priority, intr.event_id) IN
        /\ intr.at = "end_events"
        /\ intr.ended = Len(intr.cancelled)
        /\ event_log' = PlayEvents(event_log, seg, ok)
        /\ status_paths' = PlayPath(status_paths, seg, ok)
        /\ tts_log' = PlayTts(tts_log, seg, ok)
        /\ intr' = NoInterrupt
        /\ UNCHANGED <<between_queue, before_end_triggers, fired_before_end,
                       play_list, fire_list, vs_pc, remaining_seconds, eng_remaining,
                       track_ending_fired, ending_emitted, afterStartVars, last_filename, notVoice>>

MaxTriggerEvents == 2

\* the length of every track the engine plays (40 s)
TrackDuration == 80

\* music.remaining answers the poll task can read, and -1.0 s for a failed read
RemainingVals == {0, 8, 13, 58, 80}
RemainingError == -2

BeforeEndSeconds == {13, 70}
VoiceDurations == {0, 16}
CrossfadeDurations == {4, 10}

\* submit(), trigger "before_end:X"; submitted_at records the remaining time
\* the stream context held when the trigger was registered
SubmitBeforeEnd ==
    \E x \in BeforeEndSeconds :
      LET log == VoiceEventLog(event_log, "scheduled", "before_end") IN
        /\ db_open
        /\ Len(event_log) < MaxTriggerEvents
        /\ event_log' = log
        /\ status_paths' = StartPath(status_paths, log[Len(log)].status)
        /\ before_end_triggers' = Append(before_end_triggers,
               [threshold |-> x, segment |-> Segment(0, Len(log)),
                submitted_at |-> remaining_seconds])
        /\ written_since_open' = TRUE
        /\ UNCHANGED <<between_queue, fired_before_end, intr, tts_log,
                       play_list, fire_list, vs_pc, remaining_seconds, eng_remaining,
                       track_ending_fired, ending_emitted, afterStartVars, last_filename,
                       db_open, last_music_z_stagger, now, orphaned, plannerRest, clientVars,
                       pubsubVars, volumeVars>>

\* a bridge timing without the fallback for a segment of unknown duration
TriggerAtBroken(voice_dur, crossfade_dur) == (voice_dur + crossfade_dur) \div 2

\* _schedule_bridge: trigger_at
TriggerAt(voice_dur, crossfade_dur) ==
    IF voice_dur <= 0 THEN crossfade_dur ELSE (voice_dur + crossfade_dur) \div 2

\* submit(), trigger "bridge", with _schedule_bridge; voice_dur and
\* crossfade_dur record the segment's audio_duration and the answer of
\* get_crossfade_duration the threshold was computed from
SubmitBridge ==
    \E voice_dur \in VoiceDurations, crossfade_dur \in CrossfadeDurations :
      LET log == VoiceEventLog(event_log, "scheduled", "bridge") IN
        /\ db_open
        /\ Len(event_log) < MaxTriggerEvents
        /\ event_log' = log
        /\ status_paths' = StartPath(status_paths, log[Len(log)].status)
        /\ before_end_triggers' = Append(before_end_triggers,
               [threshold |-> TriggerAt(voice_dur, crossfade_dur),
                segment |-> Segment(0, Len(log)),
                submitted_at |-> remaining_seconds,
                voice_dur |-> voice_dur, crossfade_dur |-> crossfade_dur])
        /\ written_since_open' = TRUE
        /\ UNCHANGED <<between_queue, fired_before_end, intr, tts_log,
                       play_list, fire_list, vs_pc, remaining_seconds, eng_remaining,
                       track_ending_fired, ending_emitted, afterStartVars, last_filename,
                       db_open, last_music_z_stagger, now, orphaned, plannerRest, clientVars,
                       pubsubVars, volumeVars>>

RECURSIVE InsertByPriority(_, _)
InsertByPriority(sorted, s) ==
    IF sorted = <<>> THEN <<s>>
    ELSE IF Head(sorted).priority <= s.priority
         THEN <<Head(sorted)>> \o InsertByPriority(Tail(sorted), s)
         ELSE <<s>> \o sorted

\* the queue in submission order
SortedBroken(queue) == queue

\* sorted(self._between_queue, key=lambda s: s.priority): ascending, stable
RECURSIVE Sorted(_)
Sorted(queue) ==
    IF queue = <<>> THEN <<>>
    ELSE InsertByPriority(Sorted(SubSeq(queue, 1, Len(queue) - 1)), queue[Len(queue)])

\* the ending test without the _track_ending_fired flag
TrackEndingBroken(remaining, fired) ==
    remaining > 0 /\ remaining < TrackEndingThreshold

\* _poll_once: "Detect track ending"
TrackEnding(remaining, fired) ==
    remaining > 0 /\ remaining < TrackEndingThreshold /\ ~fired

\* _on_track_ending: the indices the section under the lock adds to
\* _fired_before_end
ToFire(triggers, fired, remaining) ==
    {i \in 1..Len(triggers) : remaining <= triggers[i].threshold /\ i \notin fired}

RECURSIVE TriggersToFire(_, _, _)
\* _on_track_ending: triggers_to_fire, in the order of _before_end_triggers
TriggersToFire(triggers, idx, i) ==
    IF i > Len(triggers) THEN <<>>
    ELSE (IF i \in idx THEN <<triggers[i].segment>> ELSE <<>>)
         \o TriggersToFire(triggers, idx, i + 1)

\* _poll_once from "Detect track ending" on, with _on_track_ending up to its
\* first _play; triggers, fired and ending_fired are the values the
\* track-change branch left
DetectEnding(remaining, triggers, fired, ending_fired) ==
    IF TrackEnding(remaining, ending_fired)
    THEN LET idx == ToFire(triggers, fired, remaining)
             list == TriggersToFire(triggers, idx, 1) IN
           /\ track_ending_fired' = TRUE
           /\ ending_emitted' = Append(ending_emitted, remaining)
           /\ fired_before_end' = fired \cup idx
           /\ fire_list' = list
           /\ vs_pc' = IF list = <<>> THEN "idle" ELSE "firing"
    ELSE /\ track_ending_fired' = ending_fired
         /\ ending_emitted' = ending_emitted
         /\ fired_before_end' = fired
         /\ fire_list' = <<>>
         /\ vs_pc' = "idle"

\* music.elapsed when music.remaining is e: every track lasts TrackDuration
Elapsed(e) == TrackDuration - e

\* _poll_once reading filename f and remaining time e (err: the reads of
\* music.remaining and music.elapsed failed), up to the first _play of
\* _on_track_changed on a track change, and through the ending detection
\* otherwise
PollOnce(f, e, err) ==
    LET changed == f # "" /\ f # last_filename
        remaining == IF err THEN RemainingError ELSE e IN
      /\ vs_pc = "idle"
      /\ changed \/ e <= eng_remaining
      /\ eng_remaining' = e
      /\ remaining_seconds' = remaining
      /\ elapsed_seconds' = IF err THEN RemainingError ELSE Elapsed(e)
      /\ mon_list' = mon_list
      /\ IF changed
         THEN /\ last_filename' = f
              /\ track_ending_fired' = FALSE
              /\ ending_emitted' = <<>>
              /\ before_end_triggers' = <<>>
              /\ after_start_triggers' = <<>>
              /\ fired_before_end' = {}
              /\ fired_after_start' = {}
              /\ play_list' = Sorted(between_queue)
              /\ between_queue' = <<>>
              /\ fire_list' = <<>>
              /\ vs_pc' = "flushing"
         ELSE /\ DetectEnding(remaining, before_end_triggers, fired_before_end,
                              track_ending_fired)
              /\ UNCHANGED <<last_filename, before_end_triggers, between_queue, play_list,
                             after_start_triggers, fired_after_start>>
      /\ UNCHANGED <<intr, tts_log, event_log, status_paths, notVoice>>

\* a poll that finds a new track with more than the ending threshold left
PollTrackChange == \E f \in Library : f # last_filename /\ PollOnce(f, 80, FALSE)

\* any poll
Poll == \E f \in Library, e \in RemainingVals, err \in BOOLEAN : PollOnce(f, e, err)

\* _on_track_changed: one turn of "for segment in queue: await self._play(segment)"
FlushPlay ==
    \E ok \in BOOLEAN :
        /\ vs_pc = "flushing"
        /\ play_list # <<>>
        /\ event_log' = PlayEvents(event_log, Head(play_list), ok)
        /\ status_paths' = PlayPath(status_paths, Head(play_list), ok)
        /\ tts_log' = PlayTts(tts_log, Head(play_list), ok)
        /\ play_list' = Tail(play_list)
        /\ UNCHANGED <<between_queue, before_end_triggers, fired_before_end, intr,
                       fire_list, vs_pc, remaining_seconds, eng_remaining,
                       track_ending_fired, ending_emitted, afterStartVars, last_filename, notVoice>>

\* _poll_once after the track_changed listeners returned: the ending detection
FlushEnd ==
    /\ vs_pc = "flushing"
    /\ play_list = <<>>
    /\ DetectEnding(remaining_seconds, before_end_triggers, fired_before_end,
                    track_ending_fired)
    /\ UNCHANGED <<between_queue, before_end_triggers, intr, play_list, tts_log,
                   event_log, status_paths, remaining_seconds, eng_remaining, afterStartVars,
                   last_filename, notVoice>>

\* _on_track_ending: one turn of "for segment in triggers_to_fire: await self._play(segment)"
FirePlay ==
    \E ok \in BOOLEAN :
        /\ vs_pc = "firing"
        /\ fire_list # <<>>
        /\ event_log' = PlayEvents(event_log, Head(fire_list), ok)
        /\ status_paths' = PlayPath(status_paths, Head(fire_list), ok)
        /\ tts_log' = PlayTts(tts_log, Head(fire_list), ok)
        /\ fire_list' = Tail(fire_list)
        /\ vs_pc' = IF Tail(fire_list) = <<>> THEN "idle" ELSE "firing"
        /\ UNCHANGED <<between_queue, before_end_triggers, fired_before_end, intr,
                       play_list, remaining_seconds, eng_remaining,
                       track_ending_fired, ending_emitted, afterStartVars, last_filename, notVoice>>

AfterStartSeconds == {20, 70}

\* submit(), trigger "after_start:X"
SubmitAfterStart ==
    \E x \in AfterStartSeconds :
      LET log == VoiceEventLog(event_log, "scheduled", "after_start") IN
        /\ db_open
        /\ Len(event_log) < MaxTriggerEvents
        /\ event_log' = log
        /\ status_paths' = StartPath(status_paths, log[Len(log)].status)
        /\ after_start_triggers' = Append(after_start_triggers,
               [threshold |-> x, segment |-> Segment(0, Len(log))])
        /\ written_since_open' = TRUE
        /\ UNCHANGED <<between_queue, before_end_triggers, fired_before_end, intr, tts_log,
                       play_list, fire_list, vs_pc, remaining_seconds, eng_remaining,
                       track_ending_fired, ending_emitted, fired_after_start, elapsed_seconds, mon_list,
                       last_filename,
                       db_open, last_music_z_stagger, now, orphaned, plannerRest, clientVars,
                       pubsubVars, volumeVars>>

\* a check that fires every trigger whose threshold is crossed, fired or not
ToFireAfterStartBroken(triggers, fired, elapsed) ==
    {i \in 1..Len(triggers) : elapsed >= triggers[i].threshold}

\* _check_after_start: the indices the section under the lock adds to
\* _fired_after_start
ToFireAfterStart(triggers, fired, elapsed) ==
    {i \in 1..Len(triggers) : elapsed >= triggers[i].threshold /\ i \notin fired}

\* _monitor_loop: one _check_after_start up to its first _play
MonitorCheck ==
    /\ mon_list = <<>>
    /\ elapsed_seconds > 0
    /\ LET idx == ToFireAfterStart(after_start_triggers, fired_after_start,
                                   elapsed_seconds) IN
         /\ idx # {}
         /\ fired_after_start' = fired_after_start \cup idx
         /\ mon_list' = TriggersToFire(after_start_triggers, idx, 1)
    /\ UNCHANGED <<between_queue, before_end_triggers, fired_before_end, intr, tts_log,
                   play_list, fire_list, vs_pc, remaining_seconds, eng_remaining,
                   track_ending_fired, ending_emitted, after_start_triggers, elapsed_seconds,
                   event_log, status_paths, last_filename, notVoice>>

\* _check_after_start: one turn of "for segment in triggers_to_fire: await self._play(segment)"
MonitorPlay ==
    \E ok \in BOOLEAN :
        /\ mon_list # <<>>
        /\ event_log' = PlayEvents(event_log, Head(mon_list), ok)
        /\ status_paths' = PlayPath(status_paths, Head(mon_list), ok)
        /\ tts_log' = PlayTts(tts_log, Head(mon_list), ok)
        /\ mon_list' = Tail(mon_list)
        /\ UNCHANGED <<between_queue, before_end_triggers, fired_before_end, intr,
                       play_list, fire_list, vs_pc, remaining_seconds, eng_remaining,
                       track_ending_fired, ending_emitted, after_start_triggers, fired_after_start,
                       elapsed_seconds, last_filename, notVoice>>

\* the services as main() leaves them: store open, nothing submitted yet
InitVoice ==
    /\ PlannerIdle
    /\ ClientIdle
    /\ VoiceIdle
    /\ PubSubIdle
    /\ VolumeIdle
    /\ db_open = TRUE
    /\ event_log = <<>>
    /\ last_music_z_stagger = 0
    /\ now = 1
    /\ orphaned = <<0, 0>>
    /\ written_since_open = FALSE

\* asap, interrupt and between-songs segments across track changes
NextVoice ==
    \/ SubmitAsap
    \/ SubmitBetween
    \/ SubmitInterrupt
    \/ InterruptFlush
    \/ InterruptCancel
    \/ InterruptEndEvent
    \/ InterruptPlay
    \/ PollTrackChange
    \/ FlushPlay
    \/ FlushEnd

SpecVoice == InitVoice /\ [][NextVoice]_vars

\* before_end and bridge segments against the poll task
NextTriggers ==
    \/ SubmitBeforeEnd
    \/ SubmitBridge
    \/ SubmitAfterStart
    \/ Poll
    \/ FlushEnd
    \/ FirePlay
    \/ MonitorCheck
    \/ MonitorPlay

SpecTriggers == InitVoice /\ [][NextTriggers]_vars

\* ---- properties of the voice scheduler ----

SegSet(queue) == {queue[i] : i \in 1..Len(queue)}
Priorities(queue) == [i \in 1..Len(queue) |-> queue[i].priority]
StatusOf(id) == event_log[id].status
Pushed(log, id) == \E i \in 1..Len(log) : log[i] = PushCmd(id)
Flushed(log, id) == \E i \in 1..Len(log) : log[i] = FlushCmd(id)
FlushThenPush(log, id) ==
    \E i, j \in 1..Len(log) : i < j /\ log[i] = FlushCmd(id) /\ log[j] = PushCmd(id)

\* the interrupt of priority -5 found the between-songs queue holding
\* priorities 10, 20, 30 and has ended the events of those it cancelled
InterruptScenario ==
    /\ intr.at = "end_events"
    /\ intr.ended = Len(intr.cancelled)
    /\ intr.priority = -5
    /\ Priorities(intr.found) = <<10, 20, 30>>

C8_InterruptOrder ==
    [][ /\ InterruptCancel =>
              /\ Flushed(tts_log, intr.event_id)
              /\ ~Pushed(tts_log, intr.event_id)
              /\ SegSet(between_queue') =
                     {s \in SegSet(between_queue) : s.priority <= intr.priority}
              /\ SegSet(intr'.cancelled) =
                     {s \in SegSet(between_queue) : s.priority > intr.priority}
              /\ Len(between_queue') + Len(intr'.cancelled) = Len(between_queue)
        /\ InterruptPlay =>
              /\ Flushed(tts_log, intr.event_id)
              /\ \A s \in SegSet(intr.cancelled) :
                    /\ StatusOf(s.event_id) = "cancelled"
                    /\ s \notin SegSet(between_queue)
              /\ \A s \in SegSet(intr.found) :
                    s.priority <= intr.priority => StatusOf(s.event_id) # "cancelled"
              /\ event_log'[intr.event_id].status \in {"completed", "failed"}
        /\ SubmitAsap =>
              /\ between_queue' = between_queue
              /\ \A i \in 1..Len(tts_log') :
                    tts_log'[i].cmd = "tts.flush_and_skip" => i <= Len(tts_log)
              /\ \A id \in 1..Len(event_log) :
                    event_log'[id].status = "cancelled" => StatusOf(id) = "cancelled"
      ]_vars

C8_Witness ==
    /\ intr.at = "end_events"
    /\ intr.ended = Len(intr.cancelled)
    /\ intr.cancelled # <<>>
    /\ Len(intr.found) > Len(intr.cancelled)
    /\ \E i \in 1..Len(tts_log) : tts_log[i].cmd = "tts.push" /\ StatusOf(tts_log[i].by) = "completed"
                                   /\ event_log[tts_log[i].by].trigger = "asap"

IsAscending(queue) ==
    \A i, j \in 1..Len(queue) : i < j => queue[i].priority <= queue[j].priority

\* C9: a between_songs segment is not pushed to the mixer before the next
\* track change; at the track change the whole queue is taken in ascending
\* priority, the queue is left empty, and the segments are played from the
\* head of that list until none is left.
C9_BetweenSongsFlush ==
    [][ /\ \A s \in SegSet(between_queue') :
              ~Pushed(tts_log', s.event_id) /\ event_log'[s.event_id].status = "scheduled"
        /\ last_filename' # last_filename =>
              /\ between_queue' = <<>>
              /\ IsAscending(play_list')
              /\ SegSet(play_list') = SegSet(between_queue)
              /\ Len(play_list') = Len(between_queue)
        /\ \A id \in 1..Len(event_log) :
              (event_log[id].trigger = "between_songs"
                 /\ Pushed(tts_log', id) /\ ~Pushed(tts_log, id)) =>
                    /\ vs_pc = "flushing"
                    /\ play_list # <<>>
                    /\ Head(play_list).event_id = id
                    /\ play_list' = Tail(play_list)
        /\ vs_pc' = "idle" => play_list' = <<>>
      ]_vars

\* two between-songs segments were pushed in the reverse of their submission
\* order, and the flush has played its whole list
C9_Witness ==
    /\ vs_pc = "flushing"
    /\ play_list = <<>>
    /\ \E i, j \in 1..Len(tts_log) :
          /\ i < j
          /\ tts_log[i].cmd = "tts.push" /\ tts_log[j].cmd = "tts.push"
          /\ event_log[tts_log[i].by].trigger = "between_songs"
          /\ event_log[tts_log[j].by].trigger = "between_songs"
          /\ tts_log[i].by > tts_log[j].by

\* C10 (as claimed): a before_end:X or bridge segment registered while the
\* current track has more than X left has been played once a poll of that
\* track has read a remaining time that dropped to X or less (and the poll
\* task has finished that poll).
C10_BeforeEndFires ==
    \A i \in 1..Len(before_end_triggers) :
      LET t == before_end_triggers[i] IN
        (/\ vs_pc = "idle"
         /\ t.submitted_at > t.threshold
         /\ remaining_seconds > 0
         /\ remaining_seconds <= t.threshold) =>
            StatusOf(t.segment.event_id) \in {"completed", "failed"}

\* the segment of a fired trigger is waiting in the list of the task that
\* took it, or has been played
Taken(trigger, list) ==
    \/ trigger.segment \in SegSet(list)
    \/ StatusOf(trigger.segment.event_id) \in {"completed", "failed"}

\* C11: a before_end or after_start trigger is played at most once (the
\* segment a track_ending callback or a monitor check is about to play has
\* not been played before), a track change empties both trigger lists and
\* both fired sets in one step, and every fired index points at a trigger of
\* the current list whose segment was taken for playing.
C11_FiredAtMostOnce ==
    [][ /\ FirePlay => StatusOf(Head(fire_list).event_id) = "scheduled"
        /\ MonitorPlay => StatusOf(Head(mon_list).event_id) = "scheduled"
        /\ last_filename' # last_filename =>
              /\ before_end_triggers' = <<>> /\ fired_before_end' = {}
              /\ after_start_triggers' = <<>> /\ fired_after_start' = {}
        /\ fired_before_end \subseteq 1..Len(before_end_triggers)
        /\ fired_after_start \subseteq 1..Len(after_start_triggers)
        /\ \A i \in fired_before_end : Taken(before_end_triggers[i], fire_list)
        /\ \A i \in fired_after_start : Taken(after_start_triggers[i], mon_list)
      ]_vars

\* an after_start trigger has fired and been played, its threshold is still
\* crossed, and the monitor task is between two checks; a before_end trigger
\* registered on the same track has fired too
C11_Witness ==
    /\ mon_list = <<>>
    /\ \E i \in fired_after_start :
          /\ StatusOf(after_start_triggers[i].segment.event_id) = "completed"
          /\ elapsed_seconds >= after_start_triggers[i].threshold
    /\ \E i \in fired_before_end :
          StatusOf(before_end_triggers[i].segment.event_id) = "completed"

\* the before_end triggers that bridge segments registered
BridgeTriggers ==
    {i \in 1..Len(before_end_triggers) :
        event_log[before_end_triggers[i].segment.event_id].trigger = "bridge"}

\* C12: a bridge segment is registered as a before_end trigger whose
\* threshold is half of voice duration plus crossfade duration when the
\* voice duration is positive, and the crossfade duration itself otherwise,
\* the crossfade duration being the one read from the mixer at submit time.
C12_BridgeThreshold ==
    \A i \in BridgeTriggers :
      LET t == before_end_triggers[i] IN
        IF t.voice_dur > 0
        THEN 2 * t.threshold = t.voice_dur + t.crossfade_dur
        ELSE t.threshold = t.crossfade_dur

\* two bridge triggers are registered, one for a segment of known duration
\* and one for a segment without duration
C12_Witness ==
    \E i, j \in BridgeTriggers :
        /\ before_end_triggers[i].voice_dur > 0
        /\ before_end_triggers[j].voice_dur <= 0
        /\ before_end_triggers[i].threshold # before_end_triggers[i].crossfade_dur

(***************************************************************************)
(* Event store: subscribers and concurrent writers (event_store.py).       *)
(* start_event, end_event and update_event are followed through their      *)
(* awaits: the wait for EventStore._lock, the database write, and the      *)
(* return, which releases the lock and publishes without an await between. *)
(***************************************************************************)

NumSubs == 2
NumWriters == 2
MaxWrites == 3

\* asyncio.Queue(maxsize=256), scaled down
MaxSize == 2

Subs == 1..NumSubs
Writers == 1..NumWriters

\* update_event: allowed
AllowedFields == {"title", "status", "ended_at", "started_at"}

\* the keyword a caller of update_event passes
UpdateFields == {"status", "details"}

WriteOps == {"start", "end", "update"}

WriterIdle == [at |-> "idle", op |-> "", id |-> 0, field |-> "", seq |-> 0, result |-> 0]

AllWritersIdle == \A w \in DOMAIN writer_pc : writer_pc[w].at = "idle"

\* a queue that refuses the new message when it is full
PutBroken(queue, m) == IF Len(queue) < MaxSize THEN Append(queue, m) ELSE queue

\* _publish, for one queue: put_nowait, and on QueueFull get_nowait then put_nowait
Put(queue, m) ==
    IF Len(queue) < MaxSize THEN Append(queue, m) ELSE Append(Tail(queue), m)

\* a publication that reaches every queue ever handed out
PublishBroken(queues, subs, m) == [s \in Subs |-> Put(queues[s], m)]

\* _publish: for queue in self._subscribers
Publish(queues, subs, m) ==
    [s \in Subs |-> IF s \in subs THEN Put(queues[s], m) ELSE queues[s]]

\* EventStore.subscribe
Subscribe(s) ==
    /\ s \notin subscribed
    /\ subscribed' = subscribed \cup {s}
    /\ sub_queue' = [sub_queue EXCEPT ![s] = <<>>]
    /\ dropped' = [dropped EXCEPT ![s] = 0]
    /\ UNCHANGED <<store_lock, writer_pc, commits, pubs, window, storeVars,
                   plannerVars, clientVars, voiceVars, volumeVars>>

\* EventStore.unsubscribe
Unsubscribe(s) ==
    /\ s \in subscribed
    /\ subscribed' = subscribed \ {s}
    /\ UNCHANGED <<sub_queue, store_lock, writer_pc, commits, pubs, dropped, window, storeVars,
                   plannerVars, clientVars, voiceVars, volumeVars>>

\* the holder of a queue takes its oldest message (await queue.get())
Consume(s) ==
    /\ sub_queue[s] # <<>>
    /\ sub_queue' = [sub_queue EXCEPT ![s] = Tail(@)]
    /\ UNCHANGED <<subscribed, store_lock, writer_pc, commits, pubs, dropped, window, storeVars,
                   plannerVars, clientVars, voiceVars, volumeVars>>

\* early returns that let every keyword of update_event through
NoOpBroken(op, id, field) ==
    \/ ~db_open
    \/ op # "start" /\ id < 0

\* the early returns of start_event, end_event and update_event
NoOp(op, id, field) ==
    \/ ~db_open
    \/ op # "start" /\ id < 0
    \/ op = "update" /\ field \notin AllowedFields

\* a lock that lets every caller in
LockFreeBroken == TRUE

\* asyncio.Lock: not held
LockFree == store_lock = 0

\* start_event / end_event / update_event up to the first await: the early
\* returns, and "async with self._lock", which does not suspend when the lock
\* is free
Call(w, op, id, field) ==
    /\ writer_pc[w].at = "idle"
    /\ IF NoOp(op, id, field)
       THEN /\ writer_pc' = [writer_pc EXCEPT ![w] =
                   [at |-> "idle", op |-> op, id |-> id, field |-> field, seq |-> 0,
                    result |-> IF op = "start" THEN -1 ELSE 0]]
            /\ UNCHANGED store_lock
       ELSE /\ commits + Cardinality({v \in Writers : writer_pc[v].at # "idle"}) < MaxWrites
            /\ writer_pc' = [writer_pc EXCEPT ![w] =
                   [at |-> IF LockFree THEN "locked" ELSE "waiting",
                    op |-> op, id |-> id, field |-> field, seq |-> 0, result |-> 0]]
            /\ store_lock' = IF LockFree THEN w ELSE store_lock
    /\ UNCHANGED <<sub_queue, subscribed, commits, pubs, dropped, window, storeVars,
                   plannerVars, clientVars, voiceVars, volumeVars>>

\* "async with self._lock" of a caller that had to wait
Enter(w) ==
    /\ writer_pc[w].at = "waiting"
    /\ LockFree
    /\ store_lock' = w
    /\ writer_pc' = [writer_pc EXCEPT ![w].at = "locked"]
    /\ UNCHANGED <<sub_queue, subscribed, commits, pubs, dropped, window, storeVars,
                   plannerVars, clientVars, voiceVars, volumeVars>>

\* the row change of the three operations
Written(log, op, id) ==
    CASE op = "start" -> StartEventLog(log, "voice_segment", "presenter", "active",
                                       NULL, NULL, "", now)
      [] op = "end" -> EndEventLog(log, id, "completed", now)
      [] op = "update" -> UpdateEventLog(log, id, "active", NULL, NULL)

\* the section under the lock: execute and commit
Commit(w) ==
    LET pc == writer_pc[w]
        log == Written(event_log, pc.op, pc.id) IN
      /\ pc.at = "locked"
      /\ event_log' = log
      /\ commits' = commits + 1
      /\ writer_pc' = [writer_pc EXCEPT ![w].at = "committed",
                                        ![w].seq = commits + 1,
                                        ![w].id = IF pc.op = "start" THEN Len(log) ELSE pc.id]
      /\ written_since_open' = (written_since_open \/ pc.op # "end")
      /\ UNCHANGED <<sub_queue, subscribed, store_lock, pubs, dropped, window, db_open,
                     last_music_z_stagger, now, orphaned,
                     plannerVars, clientVars, voiceVars, volumeVars>>

\* the message _publish sends for a write; seq and pub number the commits and
\* the publications
Message(pc, pub) == [action |-> pc.op, id |-> pc.id, seq |-> pc.seq, pub |-> pub]

\* the rest of the operation after the commit returned: leave the lock,
\* _publish, return
Finish(w) ==
    LET pc == writer_pc[w] IN
      /\ pc.at = "committed"
      /\ store_lock' = 0
      /\ pubs' = pubs + 1
      /\ sub_queue' = Publish(sub_queue, subscribed, Message(pc, pubs + 1))
      /\ dropped' = [s \in Subs |-> IF s \in subscribed /\ Len(sub_queue[s]) = MaxSize
                                    THEN dropped[s] + 1 ELSE dropped[s]]
      /\ writer_pc' = [writer_pc EXCEPT ![w] =
             [WriterIdle EXCEPT !.result = IF pc.op = "start" THEN pc.id ELSE 0]]
      /\ UNCHANGED <<subscribed, commits, window, storeVars,
                     plannerVars, clientVars, voiceVars, volumeVars>>

\* the window bounds a caller of get_window passes
WinTimes == {1, 2, 3}

\* the lanes argument of get_window: None (the default) or a list, kept as
\* the set of its entries
NoLanes == [given |-> FALSE, list |-> {}]
LaneLists == {NoLanes} \cup {[given |-> TRUE, list |-> l] : l \in SUBSET {"music", "presenter"}}

\* a window query that drops the events still running
InWindowBroken(row, a, b, lanes) ==
    /\ row.started_at <= b
    /\ row.ended_at # NULL /\ row.ended_at >= a
    /\ lanes.given /\ lanes.list # {} => row.lane \in lanes.list

\* get_window: the WHERE clause, with the lane filter added "if lanes", which
\* is false for None and for the empty list
InWindow(row, a, b, lanes) ==
    /\ row.started_at <= b
    /\ row.ended_at = NULL \/ row.ended_at >= a
    /\ lanes.given /\ lanes.list # {} => row.lane \in lanes.list

\* get_window: the answers the query can give, ORDER BY started_at leaving
\* the order of rows with equal started_at open
Windows(log, a, b, lanes) ==
    LET ids == {i \in 1..Len(log) : InWindow(log[i], a, b, lanes)}
        n == Cardinality(ids) IN
      {w \in [1..n -> ids] :
          /\ \A i, j \in 1..n : i # j => w[i] # w[j]
          /\ \A i, j \in 1..n : i < j => log[w[i]].started_at <= log[w[j]].started_at}

\* EventStore.get_window; the call is remembered in window with its answer
GetWindow(a, b, lanes) ==
    \E w \in (IF db_open THEN Windows(event_log, a, b, lanes) ELSE {<<>>}) :
      /\ window' = [a |-> a, b |-> b, lanes |-> lanes, events |-> w]
      /\ UNCHANGED <<sub_queue, subscribed, store_lock, writer_pc, commits, pubs, dropped,
                     storeVars, plannerVars, clientVars, voiceVars, volumeVars>>

\* EventStore.close, once every writer has returned
CloseQuiet == AllWritersIdle /\ Close

InitPubSub ==
    /\ PlannerIdle
    /\ ClientIdle
    /\ VoiceIdle
    /\ db_open = TRUE
    /\ event_log = <<>>
    /\ last_music_z_stagger = 0
    /\ now = 1
    /\ orphaned = <<0, 0>>
    /\ written_since_open = FALSE
    /\ sub_queue = [s \in Subs |-> <<>>]
    /\ subscribed = {}
    /\ store_lock = 0
    /\ writer_pc = [w \in Writers |-> WriterIdle]
    /\ commits = 0
    /\ pubs = 0
    /\ dropped = [s \in Subs |-> 0]
    /\ window = <<>>
    /\ VolumeIdle

\* the store open with subscribers coming and going and writers racing
NextPubSub ==
    \/ \E s \in Subs : Subscribe(s)
    \/ \E s \in Subs : Unsubscribe(s)
    \/ \E s \in Subs : Consume(s)
    \/ \E w \in Writers, op \in WriteOps, id \in 0..Len(event_log) :
          (op = "start") = (id = 0) /\ Call(w, op, id, "status")
    \/ \E w \in Writers : Enter(w)
    \/ \E w \in Writers : Commit(w)
    \/ \E w \in Writers : Finish(w)

SpecPubSub == InitPubSub /\ [][NextPubSub]_vars

\* one caller against a store that is opened and closed, every argument allowed
NextCalls ==
    \/ Open
    \/ CloseQuiet
    \/ \E s \in Subs : Subscribe(s)
    \/ \E op \in WriteOps, id \in {-1} \cup 1..Len(event_log), field \in UpdateFields :
          Call(1, op, id, field)
    \/ Commit(1)
    \/ Finish(1)
    \/ GetWindow(1, 3, NoLanes)

SpecCalls == InitPubSub /\ [][NextCalls]_vars

\* ------------------------------------------------------------------
\* C13: when a queue already holds its maximum at the time of a
\* publication, the oldest message is dropped and the new one appended:
\* the size stays at the maximum, and every subscribed queue holds the
\* most recent publications, in publication order, ending with the new one.
C13_DropOldest ==
    [][pubs' = pubs + 1 =>
         \A s \in subscribed :
           LET q == sub_queue[s]
               q2 == sub_queue'[s] IN
             /\ Len(q2) <= MaxSize
             /\ Len(q) = MaxSize =>
                   /\ Len(q2) = MaxSize
                   /\ \A i \in 1..(MaxSize - 1) : q2[i] = q[i + 1]
             /\ Len(q2) > 0
             /\ \A i \in 1..Len(q2) : q2[i].pub = pubs' - Len(q2) + i]_vars

\* a subscribed queue that lost its oldest message to a publication and is
\* full of the latest ones
C13_Witness ==
    \E s \in subscribed :
      /\ dropped[s] > 0
      /\ Len(sub_queue[s]) = MaxSize
      /\ sub_queue[s][MaxSize].pub = pubs

\* the writers whose commit has returned and whose message is not yet published
Committed(pcs) == {w \in Writers : pcs[w].at = "committed"}

\* ------------------------------------------------------------------
\* C14: every start_event, end_event and update_event that writes to an
\* open store delivers exactly one message, carrying its action and the id
\* of the written event, to every queue subscribed at that moment and to no
\* queue that is not subscribed; no write is published twice or not at all.
C14_OneMessagePerWrite ==
    [][/\ commits' = pubs' + Cardinality(Committed(writer_pc'))
       /\ \A w \in Writers :
            writer_pc[w].at = "committed" /\ writer_pc'[w].at = "idle" =>
              LET pc == writer_pc[w] IN
                /\ pc.id \in 1..Len(event_log)
                /\ \A s \in subscribed :
                     LET q2 == sub_queue'[s] IN
                       /\ Cardinality({i \in 1..Len(q2) : q2[i].seq = pc.seq}) = 1
                       /\ q2[Len(q2)].action = pc.op
                       /\ q2[Len(q2)].id = pc.id
                       /\ q2[Len(q2)].seq = pc.seq
                /\ \A s \in Subs \ subscribed : sub_queue'[s] = sub_queue[s]]_vars

\* a write was just published while one queue was subscribed and another
\* was not: the first ends with its message, the second is empty
C14_Witness ==
    /\ pubs > 0
    /\ pubs = commits
    /\ \E s \in subscribed : /\ sub_queue[s] # <<>>
                             /\ sub_queue[s][Len(sub_queue[s])].pub = pubs
    /\ \E s \in Subs \ subscribed : sub_queue[s] = <<>>

\* ------------------------------------------------------------------
\* C15: every subscriber receives the messages of any two writes in the
\* order in which the writes were committed, under every interleaving of
\* concurrent start_event, end_event and update_event callers.
C15_CommitOrder ==
    \A s \in Subs :
      \A i, j \in 1..Len(sub_queue[s]) :
        i < j => sub_queue[s][i].seq < sub_queue[s][j].seq

\* two callers race: one has committed and not yet published, the other
\* waits for the lock, and a subscriber already holds the message of the
\* write committed just before
C15_Witness ==
    \E s \in subscribed, w, v \in Writers :
      /\ writer_pc[w].at = "committed"
      /\ writer_pc[v].at = "waiting"
      /\ sub_queue[s] # <<>>
      /\ sub_queue[s][Len(sub_queue[s])].seq = writer_pc[w].seq - 1

\* ------------------------------------------------------------------
\* C16: degenerate calls are no-ops. On a closed store start_event returns
\* -1 and end_event, update_event and get_window change nothing, get_window
\* answering with the empty list; on an open store end_event and
\* update_event with a negative id, and update_event with no allowed field,
\* return at once, change no row and publish no message.
C16_DegenerateNoOps ==
    [][/\ \A w \in Writers :
            LET pc == writer_pc'[w] IN
              /\ writer_pc[w].at = "idle"
              /\ pc # writer_pc[w]
              /\ \/ ~db_open
                 \/ pc.op \in {"end", "update"} /\ pc.id < 0
                 \/ pc.op = "update" /\ pc.field \notin {"title", "status", "started_at", "ended_at"}
              => /\ pc.at = "idle"
                 /\ event_log' = event_log
                 /\ sub_queue' = sub_queue
                 /\ commits' = commits /\ pubs' = pubs
                 /\ store_lock' = store_lock
                 /\ db_open' = db_open
                 /\ ~db_open /\ pc.op = "start" => pc.result = -1
       /\ ~db_open /\ window' # window =>
            /\ window'.events = <<>>
            /\ event_log' = event_log /\ sub_queue' = sub_queue /\ db_open' = db_open]_vars

\* an open store with rows and a subscriber, on which update_event was just
\* called with a keyword that is not allowed and returned at once
C16_Witness ==
    /\ db_open
    /\ event_log # <<>>
    /\ subscribed # {}
    /\ \E w \in Writers :
         /\ writer_pc[w].at = "idle"
         /\ writer_pc[w].op = "update"
         /\ writer_pc[w].id > 0
         /\ writer_pc[w].field = "details"

\* the rows a log can hold when get_window is called: either lane, any
\* start, running or ended at any time (start_event and update_event accept
\* a started_at of the caller's choice, so ended_at may precede it)
MaxWindowEvents == 2

WindowRows ==
    {Row("voice_segment", lane, IF e = NULL THEN "active" ELSE "completed", st, e, NULL, "") :
        lane \in {"music", "presenter"}, st \in WinTimes, e \in {NULL} \cup WinTimes}

WindowLogs == UNION {[1..n -> WindowRows] : n \in 0..MaxWindowEvents}

InitWindow ==
    /\ PlannerIdle
    /\ ClientIdle
    /\ VoiceIdle
    /\ db_open = TRUE
    /\ event_log \in WindowLogs
    /\ last_music_z_stagger = 0
    /\ now = 1
    /\ orphaned = <<0, 0>>
    /\ written_since_open = FALSE
    /\ sub_queue = [s \in Subs |-> <<>>]
    /\ subscribed = {}
    /\ store_lock = 0
    /\ writer_pc = [w \in Writers |-> WriterIdle]
    /\ commits = 0
    /\ pubs = 0
    /\ dropped = [s \in Subs |-> 0]
    /\ window = <<>>
    /\ VolumeIdle

NextWindow == \E a \in WinTimes, b \in WinTimes, lanes \in LaneLists : GetWindow(a, b, lanes)

SpecWindow == InitWindow /\ [][NextWindow]_vars

\* the rows of the log inside the window of the last get_window call
Overlapping ==
    {i \in 1..Len(event_log) :
        /\ event_log[i].started_at <= window.b
        /\ event_log[i].ended_at = NULL \/ event_log[i].ended_at >= window.a}

\* the answer of the last get_window call holds exactly the rows want, once
\* each, in non-decreasing started_at order
Answered(want) ==
    LET ev == window.events IN
      /\ {ev[i] : i \in 1..Len(ev)} = want
      /\ Len(ev) = Cardinality(want)
      /\ \A i, j \in 1..Len(ev) :
           i < j => event_log[ev[i]].started_at <= event_log[ev[j]].started_at

\* ------------------------------------------------------------------
\* C17: for every window [a, b] and every log content, get_window(a, b)
\* returns exactly the events with started_at <= b and (ended_at is null or
\* ended_at >= a), restricted to the given lanes when a lane list is passed,
\* in non-decreasing started_at order.
C17_WindowExact ==
    DOMAIN window # {} =>
      Answered({i \in Overlapping :
                  window.lanes.given => event_log[i].lane \in window.lanes.list})

\* C17 as amended: the restriction to the given lanes applies when a list
\* with at least one lane is passed; an empty list, like no list, leaves
\* every lane in.
C17_WindowExactNonEmptyLanes ==
    DOMAIN window # {} =>
      Answered({i \in Overlapping :
                  window.lanes.list # {} => event_log[i].lane \in window.lanes.list})

\* get_window was asked for the music lane of a log that holds a running
\* music row, and answered with some rows of the log but not all
C17_Witness ==
    /\ DOMAIN window # {}
    /\ window.lanes.given /\ window.lanes.list = {"music"}
    /\ window.events # <<>>
    /\ Len(window.events) < Len(event_log)
    /\ \E i \in 1..Len(event_log) :
         event_log[i].lane = "music" /\ event_log[i].ended_at = NULL

\* ==================================================================
\* Mixer client: engine variables, persistence and mute state (mixer.py).
\* Values are in hundredths: a volume of 0.85 is 85, 5.0 s are 500.
\* ==================================================================

MaxCalls == 3

\* the arguments callers pass to the setters: below every range, inside the
\* ranges of the volumes and the duck durations, above every range
SetterInputs == {-100, 40, 2000}

\* the lower and upper limit each setter clamps to
Lower(key) ==
    CASE key = "crossfade_duration" -> 100
      [] key \in {"duck_in_duration", "duck_out_duration"} -> 5
      [] OTHER -> 0

Upper(key) ==
    CASE key = "crossfade_duration" -> 1500
      [] key \in {"duck_in_duration", "duck_out_duration"} -> 500
      [] OTHER -> 100

\* a setter that passes its argument on as given
ClampBroken(key, x) == x

\* max(lo, min(hi, x))
Clamp(key, x) ==
    LET m == IF Upper(key) < x THEN Upper(key) ELSE x IN
      IF Lower(key) > m THEN Lower(key) ELSE m

\* an error of the socket that reaches the caller as it is
SendErrorBroken == "OSError"

\* _send_command: what it raises on a timeout, a refused connection or a
\* socket error
SendError == "RuntimeError"

Errors == {"RuntimeError", "ValueError", "OSError", "TimeoutError"}

\* the exceptions each public operation catches
Caught(op) ==
    CASE op \in {"get_music_queue_length", "get_remaining", "get_elapsed"} ->
           {"RuntimeError", "ValueError"}
      [] op \in {"start", "health_check"} -> Errors
      [] OTHER -> {"RuntimeError"}

\* an exception leaves the operation
Raises(op, ok) == ~ok /\ SendError \notin Caught(op)

\* the body of a setter under the lock: var.set, then the mute flag and the
\* pre-mute volume of a channel, then _persist; nothing after a failed var.set
AfterSet(key, x, persist, ok) ==
    LET v == Clamp(key, x) IN
      IF ok
      THEN [engine_var |-> [engine_var EXCEPT ![key] = v],
            muted |-> IF key \in Channels THEN [muted EXCEPT ![key] = (v = 0)] ELSE muted,
            pre_mute |-> IF key \in Channels /\ v > 0
                         THEN [pre_mute EXCEPT ![key] = v] ELSE pre_mute,
            saved_audio |-> IF persist THEN [saved_audio EXCEPT ![key] = v] ELSE saved_audio,
            wrote |-> <<<<key, v>>>>]
      ELSE [engine_var |-> engine_var, muted |-> muted, pre_mute |-> pre_mute,
            saved_audio |-> saved_audio, wrote |-> <<>>]

\* set_music_volume, set_tts_volume, set_earcon_volume, set_duck_amount,
\* set_crossfade_duration, set_duck_in/out_duration, set_duck_in/out_curve;
\* ok = the engine answered
SetVar(key, x, persist, ok) ==
    LET r == AfterSet(key, x, persist, ok) IN
      /\ engine_var' = r.engine_var
      /\ muted' = r.muted
      /\ pre_mute' = r.pre_mute
      /\ saved_audio' = r.saved_audio
      /\ last_call' = [NoCall EXCEPT !.op = "set", !.key = key, !.arg = x, !.ok = ok,
                                     !.wrote = r.wrote, !.ret_ok = ok,
                                     !.raised = Raises("set", ok)]
      /\ UNCHANGED notVolume

\* a toggle that mutes whatever the flag says
ToggleTargetBroken(ch) == 0

\* toggle_music_mute / toggle_tts_mute: the volume the setter is called with
ToggleTarget(ch) == IF muted[ch] THEN pre_mute[ch] ELSE 0

\* toggle_music_mute / toggle_tts_mute: the setter is called with the
\* pre-mute volume or with 0, and the answer is (is_muted, volume)
ToggleMute(ch, ok) ==
    LET r == AfterSet(ch, ToggleTarget(ch), TRUE, ok) IN
      /\ engine_var' = r.engine_var
      /\ muted' = r.muted
      /\ pre_mute' = r.pre_mute
      /\ saved_audio' = r.saved_audio
      /\ last_call' = [NoCall EXCEPT !.op = "toggle", !.key = ch, !.ok = ok,
                                     !.wrote = r.wrote, !.ret_ok = ~muted[ch],
                                     !.ret_num = IF muted[ch] THEN r.pre_mute[ch] ELSE 0,
                                     !.raised = Raises("toggle", ok)]
      /\ UNCHANGED notVolume

\* the keys of the "audio" section, in the order they are restored
SavedKeys == SelectSeq(KeyOrder, LAMBDA k : saved_audio[k] # NULL)

\* start: _test_connection, then _load_saved_volumes, which sends one var.set
\* per saved key and then takes over the saved volumes above 0 as pre-mute
\* volumes; n = the number of commands the engine answers before it fails
StartRestore(n) ==
    LET sent == Len(SavedKeys)
        done == IF n - 1 < sent THEN n - 1 ELSE sent
        whole == n > sent IN
      /\ engine_var' = [k \in VarKeys |->
            IF \E i \in 1..done : SavedKeys[i] = k THEN saved_audio[k] ELSE engine_var[k]]
      /\ pre_mute' = [c \in Channels |->
            IF whole /\ saved_audio[c] # NULL /\ saved_audio[c] > 0
            THEN saved_audio[c] ELSE pre_mute[c]]
      /\ last_call' = [NoCall EXCEPT !.op = "start", !.arg = n, !.ok = whole,
            !.wrote = [i \in 1..done |-> <<SavedKeys[i], saved_audio[SavedKeys[i]]>>],
            !.raised = Raises("start", whole)]
      /\ UNCHANGED <<muted, saved_audio, notVolume>>

\* the process starts again: __init__ of a new client; the engine and the
\* config store keep what they hold
Construct ==
    /\ muted' = [c \in Channels |-> FALSE]
    /\ pre_mute' = PreMuteDefaults
    /\ last_call' = NoCall
    /\ UNCHANGED <<engine_var, saved_audio, notVolume>>

\* the operations that answer with success or failure
BoolOps == {"queue_tts", "queue_earcon", "queue_music", "flush_tts", "skip_tts", "next_track"}

\* queue_tts, queue_earcon, queue_music, flush_tts, skip_tts, next_track
BoolCommand(op, ok) ==
    /\ last_call' = [NoCall EXCEPT !.op = op, !.ok = ok, !.ret_ok = ok,
                                   !.raised = Raises(op, ok)]
    /\ UNCHANGED <<engine_var, saved_audio, muted, pre_mute, notVolume>>

\* the operations that answer with a number
NumOps == {"get_music_queue_length", "get_remaining", "get_elapsed"}

\* what each of them returns on error: 0, -1.0, -1.0
ErrorValue(op) == IF op = "get_music_queue_length" THEN 0 ELSE -100

\* the numbers the engine answers with
Answers == {0, 300}

\* get_music_queue_length, get_remaining, get_elapsed
Query(op, ok, answer) ==
    /\ last_call' = [NoCall EXCEPT !.op = op, !.ok = ok,
                                   !.ret_num = IF ok THEN answer ELSE ErrorValue(op),
                                   !.raised = Raises(op, ok)]
    /\ UNCHANGED <<engine_var, saved_audio, muted, pre_mute, notVolume>>

\* get_volumes: one var.get per key, in order, into a result that starts as
\* the defaults; n = the number of reads the engine answers before it fails
GetVolumes(n) ==
    /\ last_call' = [NoCall EXCEPT !.op = "get_volumes", !.arg = n, !.ok = (n = Len(KeyOrder)),
          !.ret_vols = [k \in VarKeys |->
              IF \E i \in 1..n : KeyOrder[i] = k THEN engine_var[k] ELSE Defaults[k]],
          !.raised = Raises("get_volumes", n = Len(KeyOrder))]
    /\ UNCHANGED <<engine_var, saved_audio, muted, pre_mute, notVolume>>

InitVolumes ==
    /\ PlannerIdle
    /\ ClientIdle
    /\ VoiceIdle
    /\ PubSubIdle
    /\ VolumeIdle
    /\ db_open = FALSE
    /\ event_log = <<>>
    /\ last_music_z_stagger = 0
    /\ now = 1
    /\ orphaned = <<0, 0>>
    /\ written_since_open = FALSE

\* one more public operation is called
Counted == calls < MaxCalls /\ calls' = calls + 1

\* every public operation, against an engine that answers or not
NextVolumes ==
    \/ Counted /\ \E key \in VarKeys, x \in SetterInputs, ok \in BOOLEAN : SetVar(key, x, TRUE, ok)
    \/ Counted /\ \E x \in SetterInputs, ok \in BOOLEAN : SetVar("duck_amount", x, FALSE, ok)
    \/ Counted /\ \E ch \in {"music_vol", "tts_vol"}, ok \in BOOLEAN : ToggleMute(ch, ok)
    \/ Counted /\ \E n \in 0..(Len(KeyOrder) + 1) : StartRestore(n)
    \/ Counted /\ Construct
    \/ Counted /\ \E op \in BoolOps, ok \in BOOLEAN : BoolCommand(op, ok)
    \/ Counted /\ \E op \in NumOps, ok \in BOOLEAN, answer \in Answers : Query(op, ok, answer)
    \/ Counted /\ \E n \in {0, 4, Len(KeyOrder)} : GetVolumes(n)

SpecVolumes == InitVolumes /\ [][NextVolumes]_vars

\* the volumes callers set on the two channels that have a mute toggle
VolumeInputs == {-100, 0, 40, 70, 2000}

\* set-volume and toggle calls in any order and number, the engine answering
NextMute ==
    \/ \E ch \in {"music_vol", "tts_vol"}, x \in VolumeInputs :
          SetVar(ch, x, TRUE, TRUE) /\ UNCHANGED calls
    \/ \E ch \in {"music_vol", "tts_vol"} : ToggleMute(ch, TRUE) /\ UNCHANGED calls

SpecMute == InitVolumes /\ [][NextMute]_vars

\* ------------------------------------------------------------------
\* C18: every value the mixer client writes to an engine variable lies
\* within the variable's bound: the three volumes, duck_amount and both
\* duck curves in [0, 1], crossfade_duration in [1, 15], the duck in and out
\* durations in [0.05, 5.0]; for every setter input and for every value
\* start restores from the config store.
C18_WritesWithinBounds ==
    \A i \in 1..Len(last_call.wrote) :
      LET k == last_call.wrote[i][1]
          v == last_call.wrote[i][2] IN
        /\ k \in {"music_vol", "tts_vol", "earcon_vol", "duck_amount",
                  "duck_in_curve", "duck_out_curve"} => 0 <= v /\ v <= 100
        /\ k = "crossfade_duration" => 100 <= v /\ v <= 1500
        /\ k \in {"duck_in_duration", "duck_out_duration"} => 5 <= v /\ v <= 500

\* a setter was given a crossfade duration above the range, and start then
\* restored what the setter had persisted
C18_Witness ==
    /\ last_call.op = "start"
    /\ \E i \in 1..Len(last_call.wrote) : last_call.wrote[i] = <<"crossfade_duration", 1500>>

\* ------------------------------------------------------------------
\* C19: toggle_music_mute and toggle_tts_mute switch the channel between 0
\* and the remembered pre-mute volume. A toggle of an unmuted channel at
\* volume v > 0 writes 0, reports muted and leaves v remembered; a toggle of
\* a muted channel, which is at 0, writes the remembered volume again and
\* reports unmuted; after any sequence of set-volume and toggle calls.
C19_ToggleAlternates ==
    [][\A ch \in {"music_vol", "tts_vol"} :
         last_call'.op = "toggle" /\ last_call'.key = ch =>
           /\ muted[ch] \/ engine_var[ch] > 0
           /\ ~muted[ch] =>
                /\ last_call'.wrote = <<<<ch, 0>>>>
                /\ engine_var'[ch] = 0
                /\ last_call'.ret_ok /\ last_call'.ret_num = 0
                /\ muted'[ch]
                /\ pre_mute'[ch] = engine_var[ch]
           /\ muted[ch] =>
                /\ engine_var[ch] = 0
                /\ pre_mute[ch] > 0
                /\ last_call'.wrote = <<<<ch, pre_mute[ch]>>>>
                /\ engine_var'[ch] = pre_mute[ch]
                /\ ~last_call'.ret_ok /\ last_call'.ret_num = pre_mute[ch]
                /\ ~muted'[ch]]_vars

\* the TTS volume was set to 0.4, muted by a toggle, and the next toggle
\* wrote 0.4 again and reported unmuted
C19_Witness ==
    /\ last_call.op = "toggle"
    /\ last_call.key = "tts_vol"
    /\ ~last_call.ret_ok
    /\ last_call.wrote = <<<<"tts_vol", 40>>>>
    /\ engine_var["tts_vol"] = 40
    /\ ~muted["tts_vol"]

\* ------------------------------------------------------------------
\* C20: when the mixer is unreachable no public operation raises: the
\* queue, flush and skip operations and every setter return false,
\* get_music_queue_length returns 0, get_remaining and get_elapsed return
\* -1.0, get_volumes returns the documented defaults, and a failed setter
\* neither persists the value nor changes the mute flags.
C20_UnreachableNeverRaises ==
    [][LET lc == last_call' IN
         ~lc.ok =>
           /\ ~lc.raised
           /\ lc.wrote = <<>> \/ lc.op = "start"
           /\ lc.op \in BoolOps \cup {"set"} => ~lc.ret_ok
           /\ lc.op = "get_music_queue_length" => lc.ret_num = 0
           /\ lc.op \in {"get_remaining", "get_elapsed"} => lc.ret_num = -100
           /\ lc.op = "get_volumes" /\ lc.arg = 0 =>
                lc.ret_vols = [k \in VarKeys |->
                    CASE k = "music_vol" -> 100
                      [] k = "tts_vol" -> 85
                      [] k = "earcon_vol" -> 50
                      [] k = "duck_amount" -> 15
                      [] k = "crossfade_duration" -> 500
                      [] k = "duck_in_duration" -> 80
                      [] k = "duck_out_duration" -> 60
                      [] k = "duck_in_curve" -> 70
                      [] k = "duck_out_curve" -> 30]
           /\ lc.op \in {"set", "toggle"} =>
                /\ saved_audio' = saved_audio
                /\ muted' = muted
                /\ pre_mute' = pre_mute
                /\ engine_var' = engine_var]_vars

\* the music volume had been set to 0.4 and persisted; a later call that
\* would have muted the channel found the mixer unreachable and returned
\* false, leaving the saved volume and the mute flag as they were
C20_Witness ==
    /\ last_call.op = "set"
    /\ last_call.key = "music_vol"
    /\ last_call.arg < 0
    /\ ~last_call.ok
    /\ ~last_call.ret_ok
    /\ ~last_call.raised
    /\ saved_audio["music_vol"] = 40
    /\ ~muted["music_vol"]

\* ---------------------------------------------------------------------
\* Claims about the persisted queue and the queue mutations
\* ---------------------------------------------------------------------

\* the planner operations that change the queue and are written to save it
QueueOperation == DeferredFill \/ Advance \/ InsertTrack \/ RemoveTrack \/ MoveTrack

\* table playlist_queue holds one row per queue entry, at positions 0..N-1
\* in queue order, and loading it gives the file paths of the queue in order
QueuePersisted ==
    /\ Cardinality(playlist_queue) = Len(upcoming)
    /\ {r.position : r \in playlist_queue} = 0..(Len(upcoming) - 1)
    /\ LoadQueue(playlist_queue) = Paths(upcoming)

\* C21 (as claimed): after every planner operation that changed the queue
\* (fill, advance, insert_track, remove_track, move_track), playlist_queue
\* holds one row per upcoming entry with positions exactly 0..N-1 in
\* in-memory order, and loading it yields the same list of file paths.
C21_QueuePersisted ==
    [][(QueueOperation /\ upcoming' # upcoming) => QueuePersisted']_vars

\* C22 (as claimed): for every queue, library path p and position k,
\* insert_track(p, k) immediately followed by remove_track(k) leaves the
\* queue with the same ordered list of tracks as before the insert.
C22_InsertThenRemove ==
    (planner_call.op = "remove_track" /\ planner_call.follows_insert)
        => Paths(upcoming) = planner_call.before

\* C22 (amended): the same for a position k with 0 <= k <= N, N the length
\* of the queue before the insert. (For k < 0 the track is inserted at the
\* head and for k > N at the end, and remove_track(k) rejects k or removes
\* nothing; the queue keeps the inserted track.)
C22_InsertThenRemoveInRange ==
    (/\ planner_call.op = "remove_track"
     /\ planner_call.follows_insert
     /\ planner_call.position >= 0
     /\ planner_call.position <= Len(planner_call.before))
        => Paths(upcoming) = planner_call.before

\* C22 witness: a track inserted in the middle of a two-track queue and
\* removed again
C22_Witness ==
    /\ planner_call.op = "remove_track"
    /\ planner_call.follows_insert
    /\ planner_call.position = 1
    /\ Len(planner_call.before) = 2
    /\ planner_call.raised
    /\ Paths(upcoming) = planner_call.before

\* the mutations of the queue at user request
QueueMutation == InsertTrack \/ RemoveTrack \/ MoveTrack

\* the last planner operation emitted queue_changed
QueueChangedEmitted ==
    \E i \in 1..Len(planner_call.emitted) : planner_call.emitted[i][1] = "queue_changed"

\* C26 (as claimed): when insert_track, remove_track or move_track has
\* changed the queue, the engine's music queue holds exactly the planner's
\* upcoming list in order (flushed and re-pushed), the new list is persisted
\* and queue_changed has been emitted.
C26_MutationSynced ==
    [][(QueueMutation /\ upcoming' # upcoming) =>
          /\ music_q' = Paths(upcoming')
          /\ QueuePersisted'
          /\ QueueChangedEmitted']_vars

\* ---------------------------------------------------------------------
\* Claims about the end-to-end scenarios of the planner
\* ---------------------------------------------------------------------

\* the first five tracks of the library by path
FirstFive == SubSeq(library, 1, ScenarioLookahead)

WasPlaying(f) ==
    \E e \in 1..Len(event_log) : <<plays - 1, e>> \in play_events /\ event_log[e].filename = f

\* the last planner operation emitted tts_needed for track f
TtsNeededEmitted(f) ==
    \E i \in 1..Len(planner_call.emitted) : planner_call.emitted[i] = <<"tts_needed", f>>

\* the event of queue entry i goes from scheduled to active in this step
Activated(i) ==
    /\ upcoming[i].event_id > 0
    /\ event_log[upcoming[i].event_id].status = "scheduled"
    /\ event_log'[upcoming[i].event_id].status = "active"

\* C23 (as claimed): with upcoming queue [A,B,C,D,E], A playing, lookahead
\* 5 and no skip signalled, the track change from A to B makes history gain
\* A, the queue become [C,D,E,F,G] after the fill, the active event of A end
\* completed, the event of B go from scheduled to active, and tts_needed is
\* emitted with D.
C23_TrackAdvance ==
    [][(/\ Advance
        /\ Paths(upcoming) = <<"A", "B", "C", "D", "E">>
        /\ WasPlaying("A")
        /\ last_filename = "B"
        /\ ~skip_pending)
       => /\ history' # <<>> /\ Head(history') = "A"
          /\ Paths(upcoming') = <<"C", "D", "E", "F", "G">>
          /\ \A e \in 1..Len(event_log) :
                (event_log[e].filename = "A" /\ event_log[e].status = "active")
                    => event_log'[e].status = "completed"
          /\ Activated(2)
          /\ TtsNeededEmitted("D")']_vars

\* C23 (amended): with A playing (its queue entry was popped when it
\* started, its event is the planner's active one), upcoming queue
\* [B,C,D,E,F], lookahead 5, no skip signalled and a feeder that selects G
\* next, the track change from A to B makes history gain B, the queue
\* become [C,D,E,F,G] after the fill, the event of A end completed, the
\* event of B go from scheduled to active, and queue_changed and then
\* tts_needed with D (index 1) are emitted.
C23_TrackAdvanceFromHead ==
    [][(/\ Advance
        /\ Paths(upcoming) = <<"B", "C", "D", "E", "F">>
        /\ WasPlaying("A")
        /\ current_active_event_id # 0
        /\ event_log[current_active_event_id].filename = "A"
        /\ last_filename = "B"
        /\ ~skip_pending
        /\ feeder = "first_fresh")
       => /\ history' # <<>> /\ Head(history') = "B"
          /\ Paths(upcoming') = <<"C", "D", "E", "F", "G">>
          /\ event_log[current_active_event_id].status = "active"
          /\ event_log'[current_active_event_id].status = "completed"
          /\ Activated(1)
          /\ planner_call'.emitted = <<<<"queue_changed", "">>, <<"tts_needed", "D">>>>]_vars

\* C23 witness: advance has handled the change from A to B in that state
C23_Witness ==
    /\ planner_call.op = "advance"
    /\ planner_call.before = <<"B", "C", "D", "E", "F">>
    /\ Paths(upcoming) = <<"C", "D", "E", "F", "G">>
    /\ history = <<"B", "A">>
    /\ TtsNeededEmitted("D")
    /\ current_active_event_id # 0
    /\ event_log[current_active_event_id].filename = "B"
    /\ event_log[current_active_event_id].status = "active"

\* C24 (as claimed): when the skip route has run (next_track, then
\* notify_skip) or notify_skip was called, the track_play event of the
\* track that was playing is ended skipped at the next track change; the
\* flag is one-shot, so without a new skip the track change after that ends
\* its event completed.
C24_SkipEndsSkipped ==
    [][(Advance /\ current_active_event_id # 0) =>
          event_log'[current_active_event_id].status =
              IF skip_requested \/ skip_pending THEN "skipped" ELSE "completed"]_vars

\* ---------------------------------------------------------------------
\* Playlist planner: the operations as tasks around PlaylistPlanner._lock
\* ---------------------------------------------------------------------

\* max_attempts of _deferred_fill
FillAttempts == 5

\* the variables the steps of the planner tasks leave alone
notLock == <<storeVars, strategy_set, fill_pending, upcoming, current_active_event_id,
             skip_pending, music_q, now_playing, current_track_event_id, sc_pc, plays,
             play_events, plannerConf, plannerLog, emitVars, auxVars, last_filename,
             clientVars, voiceVars, pubsubVars, volumeVars>>

\* lock_log after task t changed the upcoming queue, wrote the event store
\* or sent a music_q.push
Changed(log, t) ==
    [open |-> log.open \cup {t},
     crossed |-> (log.crossed \ {t}) \cup (log.open \ {t}),
     interleaved |-> log.interleaved \/ t \in log.crossed,
     sec_open |-> log.sec_open \cup {t},
     sec_crossed |-> (log.sec_crossed \ {t}) \cup (log.sec_open \ {t}),
     sec_interleaved |-> log.sec_interleaved \/ t \in log.sec_crossed]

\* lock_log after task t sent music_q.queue_length
Queried(log, t) == [log EXCEPT !.crossed = log.crossed \cup (log.open \ {t})]

\* lock_log after task t left `async with self._lock`
SectionLeft(log, t) ==
    [log EXCEPT !.sec_open = log.sec_open \ {t}, !.sec_crossed = log.sec_crossed \ {t}]

\* lock_log after the operation of task t returned or raised
Returned(log, t) ==
    [log EXCEPT !.open = log.open \ {t}, !.crossed = log.crossed \ {t}]

\* a task without the lock test: it enters whoever holds the lock
OpAcquireBroken(t) ==
    /\ op_pc[t] = "wait"
    /\ planner_lock' = t
    /\ op_pc' = [op_pc EXCEPT ![t] = "first"]
    /\ UNCHANGED <<attempt, lock_log, notLock>>

\* a task is created for the operation and reaches `async with self._lock`:
\* set_feeder creates the _deferred_fill task, the track_changed emission
\* calls advance, a request calls insert_track, remove_track or move_track
OpStart(t) ==
    /\ op_pc[t] = "idle"
    /\ op_pc' = [op_pc EXCEPT ![t] = "wait"]
    /\ attempt' = IF t = "fill" THEN 1 ELSE attempt
    /\ UNCHANGED <<planner_lock, lock_log, notLock>>

\* `async with self._lock`: the task goes on when the lock is free
OpAcquire(t) ==
    /\ op_pc[t] = "wait"
    /\ planner_lock = ""
    /\ planner_lock' = t
    /\ op_pc' = [op_pc EXCEPT ![t] = "first"]
    /\ UNCHANGED <<attempt, lock_log, notLock>>

\* the operation up to an await after its first change: _fill_queue_unlocked
\* appends to the queue and creates events; advance ends the active event
\* and pops the queue; the mutations change the list
OpFirst(t) ==
    /\ op_pc[t] = "first"
    /\ lock_log' = Changed(lock_log, t)
    /\ op_pc' = [op_pc EXCEPT ![t] = "last"]
    /\ UNCHANGED <<planner_lock, attempt, notLock>>

\* the rest of the locked section: the pushes and the save of the deferred
\* fill and of advance, the event writes of a mutation (whose
\* _sync_liquidsoap_queue then raises AttributeError). The lock is released;
\* advance and the mutations are over, the deferred fill goes on to query
\* the engine.
OpLast(t) ==
    /\ op_pc[t] = "last"
    /\ planner_lock' = ""
    /\ op_pc' = [op_pc EXCEPT ![t] = IF t = "fill" THEN "query" ELSE "idle"]
    /\ lock_log' = LET left == SectionLeft(Changed(lock_log, t), t)
                   IN  IF t = "fill" THEN left ELSE Returned(left, t)
    /\ UNCHANGED <<attempt, notLock>>

\* _deferred_fill after the locked section: mixer.get_music_queue_length(),
\* then return when the engine confirms an entry (or the queue is empty),
\* else sleep and attempt again while attempts are left
FillQuery ==
    /\ op_pc["fill"] = "query"
    /\ \E confirmed \in BOOLEAN :
         IF confirmed \/ attempt >= FillAttempts
         THEN /\ op_pc' = [op_pc EXCEPT !["fill"] = "idle"]
              /\ attempt' = 0
              /\ lock_log' = Returned(Queried(lock_log, "fill"), "fill")
         ELSE /\ op_pc' = [op_pc EXCEPT !["fill"] = "wait"]
              /\ attempt' = attempt + 1
              /\ lock_log' = Queried(lock_log, "fill")
    /\ UNCHANGED <<planner_lock, notLock>>

InitLock ==
    /\ PlannerIdle
    /\ ClientIdle
    /\ VoiceIdle
    /\ PubSubIdle
    /\ VolumeIdle
    /\ StoreEmpty

NextLock ==
    \/ \E t \in PlannerTasks : OpStart(t)
    \/ \E t \in PlannerTasks : OpAcquire(t)
    \/ \E t \in PlannerTasks : OpFirst(t)
    \/ \E t \in PlannerTasks : OpLast(t)
    \/ FillQuery

SpecLock == InitLock /\ [][NextLock]_vars

\* ---------------------------------------------------------------------
\* Claims about the planner lock
\* ---------------------------------------------------------------------

\* C27 (as claimed): planner operations (deferred fill, advance,
\* insert/remove/move) never interleave: while one is between its first and
\* last change to the queue, the event store or the music queue, no other
\* planner operation reads or changes the queue or sends a music-queue
\* command.
C27_NoInterleaving == ~lock_log.interleaved

\* the tasks inside `async with self._lock`
InSection == {t \in PlannerTasks : op_pc[t] \in {"first", "last"}}

\* C27 (amended): the lock-holding sections of the planner operations (each
\* attempt of the deferred fill, advance, insert/remove/move) never
\* interleave: at most one task is inside a section, it holds the lock, and
\* between the first and last change of a section no other operation
\* changes the queue, the event store or the music queue.
C27_SectionsAtomic ==
    /\ ~lock_log.sec_interleaved
    /\ Cardinality(InSection) <= 1
    /\ \A t \in InSection : planner_lock = t
    /\ lock_log.sec_open \subseteq InSection

\* C27 witness: a mutation is between its first and last change while
\* advance and a further attempt of the deferred fill wait for the lock
C27_Witness ==
    /\ op_pc["mutate"] = "last"
    /\ "mutate" \in lock_log.sec_open
    /\ op_pc["advance"] = "wait"
    /\ op_pc["fill"] = "wait"
    /\ attempt = 2

\* ---------------------------------------------------------------------
\* Claims about the stream context's track_ending signal
\* ---------------------------------------------------------------------

\* C28: track_ending is emitted at most once per track, only on a poll whose
\* remaining time is above 0 and below the ending threshold, and not again
\* until the next track change is detected; a poll that read the error
\* sentinel never emits it.
C28_TrackEndingOnce ==
    [][/\ Len(ending_emitted') <= 1
       /\ Len(ending_emitted') > Len(ending_emitted) =>
             /\ remaining_seconds' > 0
             /\ remaining_seconds' < TrackEndingThreshold
             /\ remaining_seconds' # RemainingError
             /\ ending_emitted' = <<remaining_seconds'>>
       /\ Len(ending_emitted') < Len(ending_emitted) =>
             last_filename' # last_filename]_vars

\* C28 witness: track_ending was emitted at 29 s remaining and a later poll
\* of the same track, inside the threshold, did not emit it again
C28_Witness ==
    /\ ending_emitted = <<58>>
    /\ track_ending_fired
    /\ remaining_seconds = 13
    /\ vs_pc = "idle"

\* a poll of the same track that read the error sentinel after the emission
C28_WitnessError ==
    /\ ending_emitted = <<58>>
    /\ remaining_seconds = RemainingError

\* ---------------------------------------------------------------------
\* Stream context: listeners and the emission of its signals
\* ---------------------------------------------------------------------

\* plugins that register a track_changed handler when they start
HandlerPlugins == {"dong", "presenter"}

StreamEvents == {"track_changed", "track_ending"}

\* the variables the emission steps leave alone
notEmit == <<storeVars, strategy_set, fill_pending, upcoming, current_active_event_id,
             skip_pending, music_q, now_playing, current_track_event_id, sc_pc, plays,
             play_events, plannerConf, plannerLog, lockVars, auxVars, last_filename,
             clientVars, voiceVars, pubsubVars, volumeVars>>

\* the callbacks of a list of invocations
Handlers(invoked) == [i \in 1..Len(invoked) |-> invoked[i].handler]

\* an emission without the try/except around the callback: an exception
\* leaves _emit (and is logged by _poll)
AfterCallbackBroken(raised) == IF raised THEN "leave" ELSE "next"

\* _emit after a callback returned or raised an Exception: the except
\* branch logs and the loop goes on to the next callback
AfterCallback(raised) == "next"

\* StreamContext.on, called by a plugin's on_start
Register(h) ==
    /\ \A i \in 1..Len(listeners.track_changed) : listeners.track_changed[i] # h
    /\ listeners' = [listeners EXCEPT !.track_changed = Append(@, h)]
    /\ UNCHANGED <<emit_pc, handled, notEmit>>

\* _poll_once reaches `await self._emit(event, ...)`
EmitStart(event) ==
    /\ emit_pc = NoEmission
    /\ emit_pc' = [event |-> event, next |-> 1]
    /\ handled' = <<>>
    /\ UNCHANGED <<listeners, notEmit>>

\* one turn of the loop of _emit: the callback is awaited and returns or
\* raises. The loop reads the list it iterates, so a callback registered
\* during the emission is reached as well.
Invoke(raised) ==
    /\ emit_pc.event # ""
    /\ emit_pc.next <= Len(listeners[emit_pc.event])
    /\ handled' = Append(handled, [handler |-> listeners[emit_pc.event][emit_pc.next],
                                    raised |-> raised])
    /\ emit_pc' = IF AfterCallback(raised) = "next"
                  THEN [emit_pc EXCEPT !.next = @ + 1]
                  ELSE NoEmission
    /\ UNCHANGED <<listeners, notEmit>>

\* the loop of _emit is over; _poll_once returns and _poll sleeps until the
\* next iteration
EmitEnd ==
    /\ emit_pc.event # ""
    /\ emit_pc.next > Len(listeners[emit_pc.event])
    /\ emit_pc' = NoEmission
    /\ UNCHANGED <<listeners, handled, notEmit>>

InitEmit ==
    /\ PlannerIdle
    /\ ClientIdle
    /\ VoiceIdle
    /\ PubSubIdle
    /\ VolumeIdle
    /\ StoreEmpty

NextEmit ==
    \/ \E h \in HandlerPlugins : Register(h)
    \/ \E event \in StreamEvents : EmitStart(event)
    \/ \E raised \in BOOLEAN : Invoke(raised)
    \/ EmitEnd

SpecEmit == InitEmit /\ [][NextEmit]_vars

\* C29: when a handler for track_changed or track_ending raises, the later
\* handlers are still invoked, in registration order, for the same emission,
\* and the poll task leaves the emission able to poll again; in particular
\* planner.advance still runs when an earlier handler fails.
C29_HandlersIsolated ==
    [][/\ emit_pc'.event # "" =>
             Handlers(handled') = SubSeq(listeners'[emit_pc'.event], 1, Len(handled'))
       /\ (emit_pc.event # "" /\ emit_pc'.event = "") =>
             /\ Handlers(handled') = listeners'[emit_pc.event]
             /\ emit_pc' = NoEmission
             /\ emit_pc.event = "track_changed" =>
                   \E i \in 1..Len(handled') : handled'[i].handler = "advance"]_vars

\* C29 witness: a track_changed emission is over in which the voice
\* scheduler's handler raised and planner.advance and a plugin's handler
\* were invoked after it
C29_Witness ==
    /\ emit_pc = NoEmission
    /\ Len(handled) = 3
    /\ handled[1] = [handler |-> "voice_scheduler", raised |-> TRUE]
    /\ handled[2].handler = "advance"
    /\ handled[3].handler \in HandlerPlugins

\* ---------------------------------------------------------------------
\* Voice scheduler: the status paths of the segments' events
\* ---------------------------------------------------------------------

\* a path without its repeated statuses (update_event "active" on an event
\* created active writes the same status again)
RECURSIVE Collapse(_)
Collapse(path) ==
    IF Len(path) <= 1 THEN path
    ELSE IF path[1] = path[2] THEN Collapse(Tail(path))
         ELSE <<path[1]>> \o Collapse(Tail(path))

ImmediateTriggers == {"asap", "interrupt"}

\* the status paths of the claim and their beginnings
ClaimedPaths(trigger) ==
    IF trigger \in ImmediateTriggers
    THEN {<<"active">>, <<"active", "completed">>, <<"active", "failed">>}
    ELSE {<<"scheduled">>, <<"scheduled", "active">>,
          <<"scheduled", "active", "completed">>, <<"scheduled", "active", "failed">>,
          <<"scheduled", "cancelled">>}

\* C30: the event of a voice segment is created scheduled (active for asap
\* and interrupt), is set active when its trigger fires and then ends
\* completed or failed, or ends cancelled by an interrupt while still
\* scheduled; a cancelled segment is never pushed to the mixer.
C30_StatusPaths ==
    /\ Len(status_paths) = Len(event_log)
    /\ \A id \in 1..Len(event_log) :
         /\ status_paths[id][Len(status_paths[id])] = StatusOf(id)
         /\ Collapse(status_paths[id]) \in ClaimedPaths(event_log[id].trigger)
         /\ StatusOf(id) = "cancelled" => ~Pushed(tts_log, id)

\* C30 witness: one segment was played between songs, a second was cancelled
\* by an interrupt while scheduled and not pushed, and the interrupt's own
\* playback failed
C30_Witness ==
    /\ Len(event_log) = 3
    /\ status_paths[1] = <<"scheduled", "active", "completed">>
    /\ Pushed(tts_log, 1)
    /\ status_paths[2] = <<"scheduled", "cancelled">>
    /\ ~Pushed(tts_log, 2)
    /\ event_log[3].trigger = "interrupt"
    /\ status_paths[3] = <<"active", "active", "failed">>
    /\ play_list = <<>>

\* ---------------------------------------------------------------------
\* Voice scheduler: a segment whose speech synthesis fails
\* ---------------------------------------------------------------------

\* the step ends the event of segment id as failed
FailsNow(id) ==
    /\ event_log'[id].status = "failed"
    /\ id <= Len(event_log) => event_log[id].status # "failed"

\* C31: when TTS generation fails for a voice segment, its event ends
\* failed, nothing is pushed to the mixer for it, and the loop that played
\* it goes on with the segments after it (no exception leaves _play): the
\* remaining segments of the same between-songs flush, and of the same
\* trigger, are still to be played.
C31_FailedSegmentSkipped ==
    /\ [](\A id \in 1..Len(event_log) : StatusOf(id) = "failed" => ~Pushed(tts_log, id))
    /\ [][\A id \in 1..Len(event_log') :
            FailsNow(id) =>
              /\ ~Pushed(tts_log', id)
              /\ tts_log' = tts_log
              /\ \A list \in {play_list, fire_list, mon_list} :
                   list # <<>> /\ Head(list).event_id = id =>
                     \/ list = play_list /\ play_list' = Tail(play_list) /\ vs_pc' = "flushing"
                     \/ list = fire_list /\ fire_list' = Tail(fire_list)
                     \/ list = mon_list /\ mon_list' = Tail(mon_list)]_vars

\* C31 witness: in one between-songs flush the first segment failed and was
\* not pushed, and the second was played after it
C31_Witness ==
    /\ Len(event_log) = 2
    /\ event_log[1].trigger = "between_songs"
    /\ event_log[2].trigger = "between_songs"
    /\ status_paths[1] = <<"scheduled", "active", "failed">>
    /\ status_paths[2] = <<"scheduled", "active", "completed">>
    /\ tts_log = <<PushCmd(2)>>
    /\ last_filename # ""

\* ---------------------------------------------------------------------
\* Planner start and deferred fill, attempt by attempt, against an engine
\* that may not answer yet
\* ---------------------------------------------------------------------

\* delay = 2 * (attempt + 1): seconds per attempt made
BackoffStep == 2

\* the persisted queues start() may find
MaxPersisted == 2

FillDone == {"returned", "exhausted", "raised"}

\* the variables the start and the deferred fill leave alone
notFill == <<db_open, now, orphaned, written_since_open, fill_pending,
             current_active_event_id, skip_pending, last_filename,
             current_track_event_id, sc_pc, plays, play_events, plannerConf, history,
             planner_call, skip_requested, planner_lock, op_pc, lock_log, emitVars,
             duckVars, sse, requests, clientVars, voiceVars, pubsubVars, volumeVars>>

\* the event ids of a list of queue entries
EventIds(up) == [i \in 1..Len(up) |-> up[i].event_id]

\* _push_all_to_liquidsoap: one queue_music per entry of the queue; with the
\* engine not answering every push fails and is only logged
PushAll(up, up_now) ==
    IF up_now
    THEN /\ music_q' = music_q \o Paths(up)
         /\ q_entries' = q_entries \o EventIds(up)
         /\ push_log' = push_log \o EventIds(up)
    ELSE UNCHANGED <<music_q, q_entries, push_log>>

\* PlaylistPlanner.start: the persisted queue is loaded, gets fresh
\* scheduled events and is pushed to the engine
PlannerStart ==
    /\ fill_pc = "none"
    /\ upcoming = <<>>
    /\ ~strategy_set
    /\ \E persisted \in SeqsUpTo(LibraryPaths, MaxPersisted) :
         LET f == FillQueue(<<>>, event_log, last_music_z_stagger,
                            LoadQueue(SaveQueue(FillUpcoming(<<>>, 0, persisted)))) IN
           /\ upcoming' = f.upcoming
           /\ event_log' = f.log
           /\ playlist_queue' = SaveQueue(f.upcoming)
           /\ PushAll(f.upcoming, engine_up)
    /\ fill_pc' = "started"
    /\ UNCHANGED <<last_music_z_stagger, strategy_set, attempt, fill_waits, now_playing,
                   engine_up, notFill>>

\* the engine comes up (its command socket answers from now on)
EngineUp ==
    /\ ~engine_up
    /\ engine_up' = TRUE
    /\ UNCHANGED <<storeVars, strategy_set, upcoming, music_q, now_playing, playlist_queue,
                   attempt, fill_pc, fill_waits, push_log, q_entries, notFill>>

\* the engine starts the next request of its queue
EnginePlay ==
    /\ engine_up
    /\ music_q # <<>>
    /\ now_playing' = Head(music_q)
    /\ music_q' = Tail(music_q)
    /\ q_entries' = Tail(q_entries)
    /\ UNCHANGED <<storeVars, strategy_set, upcoming, playlist_queue, attempt, engine_up,
                   fill_pc, fill_waits, push_log, notFill>>

\* set_feeder: the strategy is registered and the _deferred_fill task created
SetFeederFill ==
    /\ fill_pc = "started"
    /\ ~strategy_set
    /\ strategy_set' = TRUE
    /\ fill_pc' = "attempt"
    /\ attempt' = 0
    /\ fill_waits' = <<>>
    /\ UNCHANGED <<storeVars, upcoming, music_q, now_playing, playlist_queue, engine_up,
                   push_log, q_entries, notFill>>

\* _deferred_fill, one attempt: the section under the lock. The fill raising
\* (strategy or database) ends the task through `except Exception: return`.
FillAttempt(raised) ==
    /\ fill_pc = "attempt"
    /\ IF raised
       THEN /\ fill_pc' = "raised"
            /\ UNCHANGED <<storeVars, upcoming, music_q, playlist_queue, attempt,
                           push_log, q_entries>>
       ELSE /\ \E picks \in Picks(upcoming, event_log, history) :
                 LET f == FillQueue(upcoming, event_log, last_music_z_stagger, picks) IN
                   /\ upcoming' = f.upcoming
                   /\ event_log' = f.log
                   /\ last_music_z_stagger' = f.z
                   /\ playlist_queue' = IF f.added # <<>> THEN SaveQueue(f.upcoming)
                                         ELSE playlist_queue
                   /\ PushAll(f.upcoming, engine_up)
            /\ attempt' = attempt + 1
            /\ fill_pc' = "verify"
            /\ UNCHANGED <<db_open, now, orphaned, written_since_open>>
    /\ UNCHANGED <<strategy_set, now_playing, engine_up, fill_waits, fill_pending,
                   current_active_event_id, skip_pending, last_filename,
                   current_track_event_id, sc_pc, plays, play_events, plannerConf, history,
                   planner_call, skip_requested, planner_lock, op_pc, lock_log, emitVars,
                   duckVars, sse, requests, clientVars, voiceVars, pubsubVars, volumeVars>>

\* mixer.get_music_queue_length: the engine's queue length, 0 when the
\* command fails
LsCount == IF engine_up THEN Len(music_q) ELSE 0

\* a verification that retries although the engine confirmed an entry
FillConfirmedBroken(ls_count, total) == total = 0

\* _deferred_fill: `if ls_count > 0 or total == 0: return`
FillConfirmed(ls_count, total) == ls_count > 0 \/ total = 0

\* _deferred_fill after the locked section: the queue length is read; the
\* task returns, or sleeps delay seconds and goes to the next attempt, or
\* leaves the loop after the last one
FillVerify ==
    /\ fill_pc = "verify"
    /\ IF FillConfirmed(LsCount, Len(upcoming))
       THEN /\ fill_pc' = "returned"
            /\ fill_waits' = fill_waits
       ELSE /\ fill_waits' = Append(fill_waits, BackoffStep * attempt)
            /\ fill_pc' = IF attempt < FillAttempts THEN "attempt" ELSE "exhausted"
    /\ UNCHANGED <<storeVars, strategy_set, upcoming, music_q, now_playing, playlist_queue,
                   attempt, engine_up, push_log, q_entries, notFill>>

InitFill ==
    /\ PlannerFields
    /\ lookahead = Lookahead
    /\ library = LibraryByPath
    /\ feeder = "any"
    /\ fallback = Library
    /\ planner_call = Unrecorded
    /\ engine_up \in BOOLEAN
    /\ fill_pc = "none"
    /\ fill_waits = <<>>
    /\ push_log = <<>>
    /\ q_entries = <<>>
    /\ DuckIdle
    /\ sse = <<>>
    /\ requests = <<>>
    /\ ClientIdle
    /\ VoiceIdle
    /\ PubSubIdle
    /\ VolumeIdle
    /\ StoreEmpty

FillStep == (\E raised \in BOOLEAN : FillAttempt(raised)) \/ FillVerify

NextFill ==
    \/ PlannerStart
    \/ EngineUp
    \/ EnginePlay
    \/ SetFeederFill
    \/ \E raised \in BOOLEAN : FillAttempt(raised)
    \/ FillVerify

SpecFill == InitFill /\ [][NextFill]_vars

\* the deferred fill task is scheduled again and again until it is over
SpecFillLive == SpecFill /\ WF_vars(FillStep)

\* the delays of the claim: 2, 4, 6, 8, 10 seconds
ClaimedWaits == <<2, 4, 6, 8, 10>>

\* C32: the deferred fill makes at most 5 attempts, waits 2, 4, 6, 8, 10
\* seconds after the 1st..5th unsuccessful attempt, stops at the first
\* attempt after which the mixer reports at least one queued entry or the
\* planner queue is empty, and terminates in every case, also when the
\* mixer never becomes ready.
C32_DeferredFillBounded ==
    /\ [](/\ attempt <= 5
          /\ Len(fill_waits) <= 5
          /\ fill_waits = SubSeq(ClaimedWaits, 1, Len(fill_waits))
          /\ fill_pc = "attempt" => Len(fill_waits) = attempt
          /\ fill_pc = "verify" => Len(fill_waits) = attempt - 1
          /\ fill_pc = "returned" => Len(fill_waits) = attempt - 1
          /\ fill_pc = "exhausted" => fill_waits = ClaimedWaits)
    /\ [][(fill_pc = "verify" /\ fill_pc' # "verify") =>
            ((fill_pc' = "returned") <=> (LsCount > 0 \/ Len(upcoming) = 0))]_vars
    /\ (fill_pc = "attempt" ~> fill_pc \in FillDone)

\* C32 witness: the engine never answered; the fill of a non-empty queue
\* gave up after five attempts and the five waits
C32_Witness ==
    /\ fill_pc = "exhausted"
    /\ ~engine_up
    /\ upcoming # <<>>
    /\ attempt = 5
    /\ fill_waits = <<2, 4, 6, 8, 10>>

\* a sequence without a repeated element
NoRepeat(seq) == \A i, j \in 1..Len(seq) : i # j => seq[i] # seq[j]

\* C37 (as claimed): without insert_track, remove_track and move_track,
\* each entry of the planner's upcoming queue is pushed to the mixer's music
\* queue exactly once over start, the deferred fill with its retries and
\* advance, so the music queue never holds a planner entry twice.
C37_PushedOnce == NoRepeat(push_log) /\ NoRepeat(q_entries)

\* ---------------------------------------------------------------------
\* Voice scheduler: the gentle_duck mix mode
\* ---------------------------------------------------------------------

\* the duck amount a gentle_duck segment sets (0.25)
GentleDuck == 25

\* duck amounts the engine may hold when the first segment starts: the
\* default 0.15 and a setting of the operator
DuckSettings == {15, 40}

\* the variables a gentle_duck segment leaves alone
notDuck == <<storeVars, plannerBase, fillVars, sse, requests, clientVars, voiceVars, pubsubVars,
             muted, pre_mute, last_call, calls>>

\* _queue_with_mix_mode, gentle_duck: volumes = await self.mixer.get_volumes();
\* original_duck = volumes.get("duck_amount", 0.15)
GentleRead(s) ==
    /\ gentle[s].pc = "idle"
    /\ gentle' = [gentle EXCEPT ![s] = [pc |-> "read",
                                        original |-> engine_var["duck_amount"],
                                        before |-> engine_var["duck_amount"]]]
    /\ UNCHANGED <<engine_var, saved_audio, restore_timers, notDuck>>

\* await self.mixer.set_duck_amount(0.25, persist=False)
GentleSet(s) ==
    /\ gentle[s].pc = "read"
    /\ LET r == AfterSet("duck_amount", GentleDuck, FALSE, TRUE) IN
         /\ engine_var' = r.engine_var
         /\ saved_audio' = r.saved_audio
    /\ gentle' = [gentle EXCEPT ![s].pc = "set"]
    /\ UNCHANGED <<restore_timers, notDuck>>

\* await self.mixer.queue_tts(audio_path), then call_later(10.0, restore)
GentleQueue(s) ==
    /\ gentle[s].pc = "set"
    /\ gentle' = [gentle EXCEPT ![s].pc = "queued"]
    /\ restore_timers' = Append(restore_timers, s)
    /\ UNCHANGED <<engine_var, saved_audio, notDuck>>

\* the timer of the oldest pending restore fires (every delay is 10 s):
\* set_duck_amount(original_duck, persist=False)
GentleRestore ==
    /\ restore_timers # <<>>
    /\ LET s == Head(restore_timers)
           r == AfterSet("duck_amount", gentle[s].original, FALSE, TRUE) IN
         /\ engine_var' = r.engine_var
         /\ saved_audio' = r.saved_audio
         /\ gentle' = [gentle EXCEPT ![s].pc = "restored"]
    /\ restore_timers' = Tail(restore_timers)
    /\ UNCHANGED notDuck

InitDuck ==
    /\ PlannerFields
    /\ lookahead = Lookahead
    /\ library = LibraryByPath
    /\ feeder = "any"
    /\ fallback = Library
    /\ planner_call = Unrecorded
    /\ FillIdle
    /\ DuckIdle
    /\ sse = <<>>
    /\ requests = <<>>
    /\ ClientIdle
    /\ VoiceIdle
    /\ PubSubIdle
    /\ StoreEmpty
    /\ \E d \in DuckSettings :
         /\ engine_var = [Defaults EXCEPT !["duck_amount"] = d]
         /\ saved_audio = [[k \in VarKeys |-> NULL] EXCEPT !["duck_amount"] = d]
    /\ muted = [c \in Channels |-> FALSE]
    /\ pre_mute = PreMuteDefaults
    /\ last_call = NoCall
    /\ calls = 0

NextDuck ==
    \/ \E s \in GentleSegs : GentleRead(s)
    \/ \E s \in GentleSegs : GentleSet(s)
    \/ \E s \in GentleSegs : GentleQueue(s)
    \/ GentleRestore

SpecDuck == InitDuck /\ [][NextDuck]_vars

\* no gentle_duck segment is between its read and its restore
NoGentleInFlight == \A s \in GentleSegs : gentle[s].pc \in {"idle", "restored"}

\* C33 (as claimed): after a gentle_duck segment has been queued and its
\* restore has run, the engine's duck_amount equals the value it had before
\* the segment, and the persisted duck_amount is never changed by a
\* gentle_duck segment, also for segments that overlap within the restore
\* delay. Stated for the moments no segment is in flight.
C33_DuckRestored ==
    /\ NoGentleInFlight =>
         \A s \in GentleSegs :
           gentle[s].pc = "restored" => engine_var["duck_amount"] = gentle[s].before
    /\ \E d \in DuckSettings : saved_audio["duck_amount"] = d

\* ---------------------------------------------------------------------
\* The SSE endpoint of the timeline (web/routes/timeline.py) against the
\* writers of the event store.  Connection c holds subscriber queue c.
\* ---------------------------------------------------------------------

\* a connection the server has not accepted yet
NoConnection == [pc |-> "new", snapshot |-> 0, frames |-> <<>>]

\* how a streaming connection ends: the client is gone (a write raises
\* ConnectionResetError), the handler task is cancelled, or anything else
\* is raised in the loop
StreamEnds == {"reset", "cancelled", "error"}

\* the variables the SSE handler leaves alone
notSse == <<storeVars, plannerBase, fillVars, duckVars, requests, clientVars, voiceVars, volumeVars,
            store_lock, writer_pc, commits, pubs, window>>

\* a handler that cleans up in its except clause only
AfterStreamBroken(how) == IF how = "error" THEN "leave" ELSE "unsubscribe"

\* the try statement around the loop: `finally: event_store.unsubscribe(queue)`
\* runs however the loop is left
AfterStream(how) == "unsubscribe"

\* 1. get_window and the snapshot frame; snapshot remembers how many writes
\* were committed when the query ran
SseSnapshot(c) ==
    /\ sse[c].pc = "new"
    /\ sse' = [sse EXCEPT ![c] = [pc |-> "snapshot", snapshot |-> commits, frames |-> <<>>]]
    /\ UNCHANGED <<sub_queue, subscribed, dropped, notSse>>

\* 2. the playback_state frame (gone: the client has disconnected and the
\* write raises before the handler has subscribed)
SseState(c, gone) ==
    /\ sse[c].pc = "snapshot"
    /\ sse' = [sse EXCEPT ![c].pc = IF gone THEN "closed" ELSE "state"]
    /\ UNCHANGED <<sub_queue, subscribed, dropped, notSse>>

\* 3. the upcoming frame and, with no await after it, 4. event_store.subscribe()
SseSubscribe(c, gone) ==
    /\ sse[c].pc = "state"
    /\ IF gone
       THEN /\ sse' = [sse EXCEPT ![c].pc = "closed"]
            /\ UNCHANGED <<sub_queue, subscribed, dropped>>
       ELSE /\ sse' = [sse EXCEPT ![c].pc = "streaming"]
            /\ subscribed' = subscribed \cup {c}
            /\ sub_queue' = [sub_queue EXCEPT ![c] = <<>>]
            /\ dropped' = [dropped EXCEPT ![c] = 0]
    /\ UNCHANGED notSse

\* the loop: a message is taken from the queue and written as an
\* event_update frame
SseDeliver(c) ==
    /\ sse[c].pc = "streaming"
    /\ sub_queue[c] # <<>>
    /\ sub_queue' = [sub_queue EXCEPT ![c] = Tail(@)]
    /\ sse' = [sse EXCEPT ![c].frames = Append(@, Head(sub_queue[c]).seq)]
    /\ UNCHANGED <<subscribed, dropped, notSse>>

\* the loop is left by an exception
SseLeave(c, how) ==
    /\ sse[c].pc = "streaming"
    /\ sse' = [sse EXCEPT ![c].pc = "closed"]
    /\ subscribed' = IF AfterStream(how) = "unsubscribe" THEN subscribed \ {c}
                     ELSE subscribed
    /\ UNCHANGED <<sub_queue, dropped, notSse>>

InitSse ==
    /\ PlannerFields
    /\ lookahead = Lookahead
    /\ library = LibraryByPath
    /\ feeder = "any"
    /\ fallback = Library
    /\ planner_call = Unrecorded
    /\ FillIdle
    /\ DuckIdle
    /\ sse = [c \in Subs |-> NoConnection]
    /\ requests = <<>>
    /\ ClientIdle
    /\ VoiceIdle
    /\ VolumeIdle
    /\ StoreEmpty
    /\ sub_queue = [s \in Subs |-> <<>>]
    /\ subscribed = {}
    /\ store_lock = 0
    /\ writer_pc = [w \in Writers |-> WriterIdle]
    /\ commits = 0
    /\ pubs = 0
    /\ dropped = [s \in Subs |-> 0]
    /\ window = <<>>

NextSse ==
    \/ \E c \in Subs : SseSnapshot(c)
    \/ \E c \in Subs, gone \in BOOLEAN : SseState(c, gone)
    \/ \E c \in Subs, gone \in BOOLEAN : SseSubscribe(c, gone)
    \/ \E c \in Subs : SseDeliver(c)
    \/ \E c \in Subs, how \in StreamEnds : SseLeave(c, how)
    \/ \E w \in Writers, op \in WriteOps, id \in 0..Len(event_log) :
          (op = "start") = (id = 0) /\ Call(w, op, id, "status")
    \/ \E w \in Writers : Enter(w)
    \/ \E w \in Writers : Commit(w)
    \/ \E w \in Writers : Finish(w)

SpecSse == InitSse /\ [][NextSse]_vars

\* C34: every SSE connection that subscribed to the event store is
\* unsubscribed when it ends, whatever ended it, so the store's subscribers
\* are exactly the connections still streaming and none is left once all
\* clients have disconnected.
C34_NoSubscriberLeak ==
    /\ subscribed = {c \in Subs : sse[c].pc = "streaming"}
    /\ (\A c \in Subs : sse[c].pc = "closed") => subscribed = {}

\* C34 witness: both connections streamed, one of them received an event,
\* both are closed and no subscriber is left
C34_Witness ==
    /\ \A c \in Subs : sse[c].pc = "closed"
    /\ \E c \in Subs : sse[c].frames # <<>>
    /\ \A c \in Subs : sub_queue[c] # <<>> \/ sse[c].frames # <<>>
    /\ subscribed = {}

\* every write has been published and the connection's queue is drained
SseQuiet(c) ==
    /\ sse[c].pc = "streaming"
    /\ sub_queue[c] = <<>>
    /\ \A w \in Writers : writer_pc[w].at = "idle"

\* C39 (as claimed): an SSE client misses no event-store write: every
\* start, end and update committed after the client's snapshot query is
\* delivered to it as an event_update frame, under every interleaving of
\* the writers with the handler's frames and its subscribe call.
C39_NoWriteMissed ==
    \A c \in Subs :
      SseQuiet(c) =>
        \A n \in (sse[c].snapshot + 1)..commits :
          \E i \in 1..Len(sse[c].frames) : sse[c].frames[i] = n

\* ---------------------------------------------------------------------
\* Voice scheduler: the events of segments whose trigger never fires
\* ---------------------------------------------------------------------

\* the scheduler still holds the segment of event id: in the between-songs
\* queue, as a timed trigger that has not fired, in a list being played, or
\* among the segments an interrupt is about to cancel
HeldSegment(id) ==
    \/ \E i \in 1..Len(between_queue) : between_queue[i].event_id = id
    \/ \E i \in 1..Len(play_list) : play_list[i].event_id = id
    \/ \E i \in 1..Len(fire_list) : fire_list[i].event_id = id
    \/ \E i \in 1..Len(mon_list) : mon_list[i].event_id = id
    \/ \E i \in 1..Len(intr.cancelled) : i > intr.ended /\ intr.cancelled[i].event_id = id
    \/ \E i \in 1..Len(before_end_triggers) :
          before_end_triggers[i].segment.event_id = id /\ i \notin fired_before_end
    \/ \E i \in 1..Len(after_start_triggers) :
          after_start_triggers[i].segment.event_id = id /\ i \notin fired_after_start

\* C35 (as claimed): every voice_segment event created by submit reaches a
\* terminal status; the event of a before_end, after_start or bridge
\* segment whose trigger has not fired when the track changes does not stay
\* scheduled for ever. Stated as: an event that is still scheduled belongs
\* to a segment the scheduler still holds, so that it can be played or
\* cancelled.
C35_ScheduledIsHeld ==
    \A id \in 1..Len(event_log) : StatusOf(id) = "scheduled" => HeldSegment(id)

\* ---------------------------------------------------------------------
\* Voice scheduler: an interrupt against a between-songs flush in progress
\* ---------------------------------------------------------------------

\* an interrupt was submitted after the segment seg and outranks it
Outranked(seg) ==
    \E j \in 1..Len(event_log), p \in InterruptPriorities :
      /\ event_log[j].trigger = "interrupt"
      /\ j > seg.event_id
      /\ seg.priority > p

\* C36 (as claimed): once an interrupt with priority p has been submitted,
\* no between_songs segment with a priority number greater than p that was
\* submitted before it is pushed to the mixer afterwards, also when a
\* between-songs flush is already in progress.
C36_NoPushAfterInterrupt ==
    [][\A i \in 1..Len(play_list) :
         (Outranked(play_list[i]) /\ ~Pushed(tts_log, play_list[i].event_id))
           => ~Pushed(tts_log', play_list[i].event_id)]_vars

\* ---------------------------------------------------------------------
\* Track changes of repeated files
\* ---------------------------------------------------------------------

\* main() on a fresh installation with the two-track library and the
\* lookahead of the default configuration; the strategy may select any
\* track of the library (SimplePlaylistFeeder falls back to the entire
\* library once every track is in the recent history or queued)
InitRepeat ==
    /\ PlannerConstructed
    /\ lookahead = ScenarioLookahead
    /\ library = LibraryByPath
    /\ feeder = "any"
    /\ fallback = Library
    /\ planner_call = Unrecorded
    /\ ClientIdle
    /\ VoiceIdle
    /\ PubSubIdle
    /\ VolumeIdle
    /\ StoreEmpty

\* feeder registration, playback, polling and advance; no user mutation
\* and no skip
NextRepeat ==
    \/ SetFeeder
    \/ DeferredFill
    \/ MixerNext
    \/ PollDetect
    \/ Advance

SpecRepeat == InitRepeat /\ [][NextRepeat]_vars

\* the engine takes the head of music_q and starts playing it
StartsQueueEntry ==
    /\ music_q # <<>>
    /\ music_q' = Tail(music_q)
    /\ now_playing' = Head(music_q)

\* C38: every time the engine starts the next entry of its music queue,
\* the filename music.info reports differs from the one _poll_once saw
\* last, so that the poll emits track_changed and advance runs for the
\* entry (also when the entry is the file that was playing before)
C38_StartDetected ==
    [][StartsQueueEntry => now_playing' # last_filename']_vars

\* ---------------------------------------------------------------------
\* Service calls and their timeline events
\* ---------------------------------------------------------------------

MaxRequests == 3        \* calls of speak and chat followed

\* the services that record their calls on the system lane, with the
\* event type each one starts
ServiceEvent == [tts |-> "tts_generate", llm |-> "llm_request"]

\* what the HTTP request of a call comes to: a 200 response with content,
\* aiohttp.ClientError, a response whose status is not 200, and for chat a
\* 200 response whose choices list is empty
CallOutcomes(service) ==
    IF service = "llm" THEN {"ok", "client_error", "non_200", "empty"}
    ELSE {"ok", "client_error", "non_200"}

\* the variables the service calls leave alone
notService == <<db_open, last_music_z_stagger, orphaned, plannerBase, fillVars, duckVars,
                sse, clientVars, voiceVars, pubsubVars, volumeVars>>

\* TTSService.speak after start_event: the status it passes to end_event
\* ("" = end_event is not called). The non-200 branch ends the event itself
\* before it raises; the except clause ends it for aiohttp.ClientError.
SpeakEnds(outcome) ==
    IF outcome = "ok" THEN "completed" ELSE "failed"

\* LLMService.chat after start_event: the RuntimeError raised inside the try
\* block for a non-200 status or an empty choices list is not an
\* aiohttp.ClientError, so the except clause does not run for it
ChatEnds(outcome) ==
    IF outcome = "ok" THEN "completed"
    ELSE IF outcome = "client_error" THEN "failed"
    ELSE ""

\* speak / chat up to the HTTP request: start_event(event_type, lane="system")
ServiceCall(service) ==
    /\ db_open
    /\ Len(requests) < MaxRequests
    /\ event_log' = StartEventLog(event_log, ServiceEvent[service], "system", "active",
                                  NULL, NULL, "", now)
    /\ requests' = Append(requests, [service |-> service, eid |-> Len(event_log) + 1,
                                     pc |-> "posted", outcome |-> ""])
    /\ written_since_open' = TRUE
    /\ UNCHANGED <<now, notService>>

\* the rest of speak / chat: the request comes to outcome, the call returns
\* or raises RuntimeError
ServiceReturn(i, outcome) ==
    /\ requests[i].pc = "posted"
    /\ outcome \in CallOutcomes(requests[i].service)
    /\ LET ends == IF requests[i].service = "tts" THEN SpeakEnds(outcome)
                   ELSE ChatEnds(outcome)
       IN  event_log' = IF ends = "" THEN event_log
                        ELSE EndEventLog(event_log, requests[i].eid, ends, now)
    /\ requests' = [requests EXCEPT ![i].pc = IF outcome = "ok" THEN "returned" ELSE "raised",
                                    ![i].outcome = outcome]
    /\ UNCHANGED <<now, written_since_open, notService>>

\* the wall clock advances while calls are in flight
ServiceTick ==
    /\ now + 1 \in Times
    /\ now' = now + 1
    /\ UNCHANGED <<event_log, written_since_open, requests, notService>>

\* main() after the services were constructed with the event store
InitService ==
    /\ PlannerIdle
    /\ ClientIdle
    /\ VoiceIdle
    /\ PubSubIdle
    /\ VolumeIdle
    /\ StoreEmpty

\* a plugin or the voice scheduler calls speak or chat
ServiceStart ==
    \E service \in DOMAIN ServiceEvent : ServiceCall(service)

\* one of the calls in flight comes to its end
ServiceEnd ==
    \E i \in 1..Len(requests), outcome \in CallOutcomes("llm") : ServiceReturn(i, outcome)

NextService ==
    \/ ServiceStart
    \/ ServiceEnd
    \/ ServiceTick

SpecService == InitService /\ [][NextService]_vars

\* C40: once a call of speak or chat has returned or raised, the event it
\* started is no longer active: it is completed when the call succeeded and
\* failed for every failure outcome
C40_EndedByService ==
    \A i \in 1..Len(requests) :
        requests[i].pc # "posted" =>
            event_log[requests[i].eid].status =
                (IF requests[i].outcome = "ok" THEN "completed" ELSE "failed")
====
